---- MODULE Spec2Model ----
(***************************************************************************)
(* Yonmoque: a verification model of the rules engine (server/game.js).    *)
(*                                                                         *)
(* A game state is a record with the fields of the JavaScript object:      *)
(* board (5x5, board[row][col] in {"black","white",Null}), placed, turn,   *)
(* status, ready, winner, result, lastMove.  The timestamp lastMove.at is  *)
(* the wall clock and is left out: no rule reads it.                       *)
(*                                                                         *)
(* JavaScript null is Null for a scalar (a cell, winner, result) and       *)
(* NullRef for an object (a coordinate, lastMove, the state of a rejected  *)
(* result).  A coordinate is [row |-> r, col |-> c]; a flipped cell is the *)
(* pair <<r, c>>, as the source's [r, c].                                  *)
(***************************************************************************)
EXTENDS Integers, Sequences, FiniteSets, TLC

VARIABLES
    game,       \* the game state the caller holds (a room's stored game)
    last,       \* what the last applyAction call returned: [ok, error]
    plies,      \* number of accepted actions since Init
    scenario,   \* index of the position the run started from
    server      \* the rooms, seats, sockets and CPU timers of the server

vars == <<game, last, plies, scenario, server>>

Null == "null"
NullRef == [isNull |-> TRUE]

Abs(n) == IF n < 0 THEN -n ELSE n
Sign(n) == IF n < 0 THEN -1 ELSE IF n > 0 THEN 1 ELSE 0

(***************************************************************************)
(* Board model                                                             *)
(***************************************************************************)
BOARD_SIZE == 5
MAX_PIECES == 6

Rows == 0 .. (BOARD_SIZE - 1)
Cols == 0 .. (BOARD_SIZE - 1)
Colors == {"black", "white"}

NEUTRAL_POSITIONS == {<<0, 0>>, <<0, 4>>, <<4, 0>>, <<4, 4>>, <<2, 2>>}

BLACK_POSITIONS ==
    {<<0, 2>>, <<1, 1>>, <<1, 3>>, <<2, 0>>, <<2, 4>>, <<3, 1>>, <<3, 3>>, <<4, 2>>}

inBounds(row, col) == row >= 0 /\ row < BOARD_SIZE /\ col >= 0 /\ col < BOARD_SIZE

getCellType(row, col) ==
    IF <<row, col>> \in NEUTRAL_POSITIONS THEN "neutral"
    ELSE IF <<row, col>> \in BLACK_POSITIONS THEN "black"
    ELSE "white"

createEmptyBoard == [row \in Rows |-> [col \in Cols |-> Null]]

createWaitingState ==
    [board |-> createEmptyBoard,
     placed |-> [black |-> 0, white |-> 0],
     turn |-> "black",
     status |-> "waiting",
     ready |-> [black |-> FALSE, white |-> FALSE],
     winner |-> Null,
     result |-> Null,
     lastMove |-> NullRef]

createNewGameState ==
    [board |-> createEmptyBoard,
     placed |-> [black |-> 0, white |-> 0],
     turn |-> "black",
     status |-> "playing",
     ready |-> [black |-> TRUE, white |-> TRUE],
     winner |-> Null,
     result |-> Null,
     lastMove |-> NullRef]

(***************************************************************************)
(* The stores of the server (server/db.js and the maps of the server's     *)
(* main module) for one room, ROOM_COUNT = 1: the room's seats and status, *)
(* cpuRooms and cpuThinking for the room, the pending timers of            *)
(* maybeRunCpuTurn with the configuration each callback has captured, and  *)
(* socket.data.roomId of each user's socket (0 for null).  A seat holds    *)
(* the userId of its occupant or Null.  The stored game of the room,       *)
(* games.get(1), is the variable game, NullRef while nothing is stored.    *)
(* readyBy is history: for each seat the user whose game:ready set the     *)
(* seat's ready flag since the seat last changed hands.                    *)
(***************************************************************************)
Users == {"u1", "u2"}

cpuUserId == "cpu"

initDb ==
    [seats |-> [black |-> Null, white |-> Null],
     status |-> "waiting",
     cpuRooms |-> NullRef,
     cpuThinking |-> FALSE,
     timers |-> << >>,
     sockets |-> [u \in Users |-> 0],
     readyBy |-> [black |-> Null, white |-> Null]]

(***************************************************************************)
(* normalizeState, on a state object (a record with the eight fields) or   *)
(* on no object (NullRef).  A field of the input may hold no value or a    *)
(* malformed one: the board or a row of it may be no array (NullRef),      *)
(* placed and ready may be no object (NullRef), a cell, turn, status,      *)
(* winner and result may be any string or Null, and a placed count may be  *)
(* any integer or NaN, which stands for every value that Number.isFinite   *)
(* refuses.                                                                *)
(* The copy normalizeState returns is built from new arrays and new object *)
(* literals; normalizeShared names the mutable parts of the copy that are  *)
(* the very objects of the input: the board array "board", its rows        *)
(* "row0".."row4", "placed" and "ready".  The source shares none of them.  *)
(* truthy is JavaScript's truthiness of a string-or-null field             *)
(* (x || default).                                                         *)
(***************************************************************************)
truthy(v) == v \notin {Null, ""}

NaN == -1000

isFinite(n) == n # NaN

\* lines 133-148
normalizeBoard(board) ==
    [row \in Rows |-> [col \in Cols |->
        IF board = NullRef THEN Null
        ELSE IF board[row] = NullRef THEN Null
        ELSE IF board[row][col] \in Colors THEN board[row][col]
        ELSE Null]]

\* lines 126-170; the variant forgets the last move
normalizeStateWithoutLastMove(state) ==
    IF state = NullRef THEN createWaitingState
    ELSE
    LET placed == IF state.placed = NullRef
                  THEN [black |-> 0, white |-> 0] ELSE state.placed
        ready == IF state.ready = NullRef
                 THEN [black |-> FALSE, white |-> FALSE] ELSE state.ready
    IN  [board |-> normalizeBoard(state.board),
         placed |-> [black |-> IF isFinite(placed.black) THEN placed.black ELSE 0,
                     white |-> IF isFinite(placed.white) THEN placed.white ELSE 0],
         turn |-> IF state.turn = "white" THEN "white" ELSE "black",
         status |-> IF truthy(state.status) THEN state.status ELSE "waiting",
         ready |-> [black |-> ready.black = TRUE,
                    white |-> ready.white = TRUE],
         winner |-> IF truthy(state.winner) THEN state.winner ELSE Null,
         result |-> IF truthy(state.result) THEN state.result ELSE Null,
         lastMove |-> NullRef]

\* lines 126-170

normalizeState(state) ==
    IF state = NullRef THEN createWaitingState
    ELSE
    LET placed == IF state.placed = NullRef
                  THEN [black |-> 0, white |-> 0] ELSE state.placed
        ready == IF state.ready = NullRef
                 THEN [black |-> FALSE, white |-> FALSE] ELSE state.ready
    IN  [board |-> normalizeBoard(state.board),
         placed |-> [black |-> IF isFinite(placed.black) THEN placed.black ELSE 0,
                     white |-> IF isFinite(placed.white) THEN placed.white ELSE 0],
         turn |-> IF state.turn = "white" THEN "white" ELSE "black",
         status |-> IF truthy(state.status) THEN state.status ELSE "waiting",
         ready |-> [black |-> ready.black = TRUE,
                    white |-> ready.white = TRUE],
         winner |-> IF truthy(state.winner) THEN state.winner ELSE Null,
         result |-> IF truthy(state.result) THEN state.result ELSE Null,
         lastMove |-> IF state.lastMove = NullRef THEN NullRef ELSE state.lastMove]

rowPart(row) == <<"row0", "row1", "row2", "row3", "row4">>[row + 1]

boardParts == {"board"} \cup {rowPart(row) : row \in Rows}

\* the variant keeps the input's board (const board = state.board)
normalizeSharedBoard(state) == boardParts

normalizeShared(state) == {}

getOpponent(color) == IF color = "black" THEN "white" ELSE "black"

(***************************************************************************)
(* Move validator                                                          *)
(***************************************************************************)
\* the variant lets a piece go two cells
isValidStepMoveTwo(board, from, to) ==
    LET dr == Abs(to.row - from.row)
        dc == Abs(to.col - from.col)
    IN  dr <= 2 /\ dc <= 2 /\ dr + dc > 0 /\ inBounds(to.row, to.col)

\* lines 189-194

isValidStepMove(board, from, to) ==
    LET dr == Abs(to.row - from.row)
        dc == Abs(to.col - from.col)
    IN  dr <= 1 /\ dc <= 1 /\ dr + dc > 0 /\ inBounds(to.row, to.col)

\* lines 205-246; the variant does not look at the cells passed over (line 240)
isValidDiagonalSlideOverPieces(board, color, from, to) ==
    LET dr == to.row - from.row
        dc == to.col - from.col
        distance == Abs(dr)
        stepRow == Sign(dr)
        stepCol == Sign(dc)
    IN  IF distance <= 1 \/ distance # Abs(dc) THEN FALSE
        ELSE IF getCellType(from.row, from.col) # color THEN FALSE
        ELSE \A i \in 1 .. distance :
                LET row == from.row + stepRow * i
                    col == from.col + stepCol * i
                IN  /\ inBounds(row, col)
                    /\ getCellType(row, col) = color

isValidDiagonalSlide(board, color, from, to) ==
    LET dr == to.row - from.row
        dc == to.col - from.col
        distance == Abs(dr)
        stepRow == Sign(dr)
        stepCol == Sign(dc)
    IN  IF distance <= 1 \/ distance # Abs(dc) THEN FALSE
        ELSE IF getCellType(from.row, from.col) # color THEN FALSE
        ELSE \A i \in 1 .. distance :
                LET row == from.row + stepRow * i
                    col == from.col + stepCol * i
                IN  /\ inBounds(row, col)
                    /\ getCellType(row, col) = color
                    /\ (i < distance => board[row][col] = Null)

(***************************************************************************)
(* Capture resolver.  flipSandwiched works on the board in place, one      *)
(* direction after the other, in the source's order; a later direction     *)
(* reads the board the earlier ones left.  It yields the board and the     *)
(* list of flipped cells.                                                  *)
(***************************************************************************)
directions8 ==
    << <<1, 0>>, <<-1, 0>>, <<0, 1>>, <<0, -1>>,
       <<1, 1>>, <<1, -1>>, <<-1, 1>>, <<-1, -1>> >>

RECURSIVE collectCandidates(_, _, _, _, _, _)
collectCandidates(board, opponent, row, col, dr, dc) ==
    IF inBounds(row, col) /\ board[row][col] = opponent
    THEN << <<row, col>> >> \o collectCandidates(board, opponent, row + dr, col + dc, dr, dc)
    ELSE << >>

\* the variant takes the sandwiched pieces off the board
RECURSIVE flipCellsRemoving(_, _, _)
flipCellsRemoving(board, color, cells) ==
    IF cells = << >> THEN board
    ELSE flipCellsRemoving([board EXCEPT ![cells[1][1]][cells[1][2]] = Null], color,
                           Tail(cells))

\* lines 288-292
RECURSIVE flipCells(_, _, _)
flipCells(board, color, cells) ==
    IF cells = << >> THEN board
    ELSE flipCells([board EXCEPT ![cells[1][1]][cells[1][2]] = color], color, Tail(cells))

\* lines 275-293; the variant flips a run that no piece of the mover closes
\* (line 287)
flipDirectionOpenEnded(acc, color, origin, dr, dc) ==
    LET opponent == getOpponent(color)
        candidates == collectCandidates(acc.board, opponent,
                                        origin.row + dr, origin.col + dc, dr, dc)
    IN  IF Len(candidates) > 0
        THEN [board |-> flipCells(acc.board, color, candidates),
              flipped |-> acc.flipped \o candidates]
        ELSE acc

flipDirection(acc, color, origin, dr, dc) ==
    LET opponent == getOpponent(color)
        candidates == collectCandidates(acc.board, opponent,
                                        origin.row + dr, origin.col + dc, dr, dc)
        row == origin.row + dr * (Len(candidates) + 1)
        col == origin.col + dc * (Len(candidates) + 1)
    IN  IF Len(candidates) > 0 /\ inBounds(row, col) /\ acc.board[row][col] = color
        THEN [board |-> flipCells(acc.board, color, candidates),
              flipped |-> acc.flipped \o candidates]
        ELSE acc

RECURSIVE flipFrom(_, _, _, _)
flipFrom(acc, color, origin, k) ==
    IF k > Len(directions8) THEN acc
    ELSE flipFrom(flipDirection(acc, color, origin, directions8[k][1], directions8[k][2]),
                  color, origin, k + 1)

\* the variant goes on from the first piece it has flipped
flipSandwichedCascading(board, color, origin) ==
    CHOOSE again \in
        {IF first.flipped = << >> THEN first
         ELSE flipFrom(first, color,
                       [row |-> first.flipped[1][1], col |-> first.flipped[1][2]], 1) :
            first \in {flipFrom([board |-> board, flipped |-> << >>], color, origin, 1)}} :
        TRUE

\* lines 257-297

flipSandwiched(board, color, origin) ==
    flipFrom([board |-> board, flipped |-> << >>], color, origin, 1)

(***************************************************************************)
(* Outcome evaluator                                                       *)
(***************************************************************************)
directions4 == {<<1, 0>>, <<0, 1>>, <<1, 1>>, <<-1, 1>>}

RECURSIVE lineLength(_, _, _, _, _, _)
lineLength(board, color, r, c, dr, dc) ==
    IF inBounds(r, c) /\ board[r][c] = color
    THEN 1 + lineLength(board, color, r + dr, c + dc, dr, dc)
    ELSE 0

SetMax(S) == IF S = {} THEN 0 ELSE CHOOSE m \in S : \A n \in S : n <= m

getMaxLine(board, color) ==
    SetMax({lineLength(board, color, row, col, d[1], d[2]) :
              <<row, col, d>> \in
                 {<<r, c, e>> \in Rows \X Cols \X directions4 :
                     /\ board[r][c] = color
                     /\ ~(inBounds(r - e[1], c - e[2])
                          /\ board[r - e[1]][c - e[2]] = color)}})

\* lines 362-376; the variants test the wrong length (line 369) or test
\* the win before the loss (lines 365-372)
evaluateOutcomeWinAboveFour(board, color) ==
    LET maxLine == getMaxLine(board, color)
    IN  IF maxLine >= 5 THEN [result |-> "lose", maxLine |-> maxLine]
        ELSE IF maxLine > 4 THEN [result |-> "win", maxLine |-> maxLine]
        ELSE [result |-> Null, maxLine |-> maxLine]

evaluateOutcomeWinFirst(board, color) ==
    LET maxLine == getMaxLine(board, color)
    IN  IF maxLine >= 4 THEN [result |-> "win", maxLine |-> maxLine]
        ELSE IF maxLine >= 5 THEN [result |-> "lose", maxLine |-> maxLine]
        ELSE [result |-> Null, maxLine |-> maxLine]

evaluateOutcome(board, color) ==
    LET maxLine == getMaxLine(board, color)
    IN  IF maxLine >= 5 THEN [result |-> "lose", maxLine |-> maxLine]
        ELSE IF maxLine >= 4 THEN [result |-> "win", maxLine |-> maxLine]
        ELSE [result |-> Null, maxLine |-> maxLine]

(***************************************************************************)
(* State transition.  applyAction(state, action) works on next, the copy   *)
(* normalizeState made, and returns {ok: false, error} or {ok: true,       *)
(* state: next}.  The result record also carries what the call did to the  *)
(* caller's objects:                                                       *)
(*   input  - the contents of the input state object when the call returns *)
(*            (a part of next that is the same object as the input's part  *)
(*            takes every write made to next);                             *)
(*   shared - the parts of the returned state that are objects of the      *)
(*            input state.                                                 *)
(* No write happens before a rejection: every return of an error precedes  *)
(* the first assignment to next.                                           *)
(***************************************************************************)
ErrorCodes ==
    {"game_not_active", "not_your_turn", "invalid_color", "invalid_target",
     "no_pieces_left", "occupied", "not_your_piece", "invalid_move", "invalid_action"}

reject(state, error) ==
    [ok |-> FALSE, error |-> error, state |-> NullRef, input |-> state, shared |-> {}]

inputAfter(state, next, shared) ==
    IF shared = {} THEN state
    ELSE [state EXCEPT
            !.board = [row \in Rows |->
                          IF rowPart(row) \in shared \/ "board" \in shared
                          THEN next.board[row] ELSE state.board[row]],
            !.placed = IF "placed" \in shared THEN next.placed ELSE state.placed]

\* line 398; the variant lets a finished game go on
gameNotActiveWhileWaiting(next) == next.status = "waiting"

gameNotActive(next) == next.status # "playing"

\* line 426; the variant allows a seventh piece
noPiecesLeftAfterSeven(placed, color) == placed[color] > MAX_PIECES

noPiecesLeft(placed, color) == placed[color] >= MAX_PIECES

\* lines 414, 436: a placement writes the target cell and flips nothing; the
\* variant resolves captures as a move does
placePieceAndFlip(board, color, to) ==
    flipSandwiched([board EXCEPT ![to.row][to.col] = color], color, to)

placePiece(board, color, to) ==
    [board |-> [board EXCEPT ![to.row][to.col] = color], flipped |-> << >>]

\* lines 460-462; the variant knows no diagonal slide
isValidMoveStepOnly(board, color, from, to) == isValidStepMove(board, from, to)

isValidMove(board, color, from, to) ==
    LET stepMove == isValidStepMove(board, from, to)
        diagonalSlide == isValidDiagonalSlide(board, color, from, to)
    IN  ~(~stepMove /\ ~diagonalSlide)

\* lines 467-471; the variant does not empty the cell the piece leaves
\* (line 467)
movePieceLeavingSource(board, color, from, to) ==
    flipSandwiched([board EXCEPT ![to.row][to.col] = color], color, to)

\* lines 467-471: the piece is relocated, then the sandwiched pieces flip
movePiece(board, color, from, to) ==
    flipSandwiched([board EXCEPT ![from.row][from.col] = Null,
                                 ![to.row][to.col] = color],
                   color, to)

\* lines 477-504; the variant records the winner and the result of an action
\* that ends the game but leaves the status as it was (lines 481, 488)
finishActionKeepingStatus(state, next, shared, board, placed, action, from, to, flipped) ==
    LET color == action.color
        outcome == evaluateOutcome(board, color)
        lastMove == [type |-> action.type, color |-> color,
                     from |-> from, to |-> to, flipped |-> flipped]
        moved == [next EXCEPT !.board = board, !.placed = placed, !.lastMove = lastMove]
        final == IF outcome.result = "lose"
                 THEN [moved EXCEPT !.winner = getOpponent(color),
                                    !.result = "five"]
                 ELSE IF outcome.result = "win"
                 THEN [moved EXCEPT !.winner = color,
                                    !.result = "four"]
                 ELSE [moved EXCEPT !.turn = getOpponent(color)]
    IN  [ok |-> TRUE, error |-> Null, state |-> final,
         input |-> inputAfter(state, final, shared), shared |-> shared]

\* lines 477-504: the outcome, the turn and lastMove, on the board the action
\* left; the variant passes the turn also when the action ends the game
finishActionPassingTurn(state, next, shared, board, placed, action, from, to, flipped) ==
    LET color == action.color
        outcome == evaluateOutcome(board, color)
        lastMove == [type |-> action.type, color |-> color,
                     from |-> from, to |-> to, flipped |-> flipped]
        moved == [next EXCEPT !.board = board, !.placed = placed, !.lastMove = lastMove,
                              !.turn = getOpponent(color)]
        final == IF outcome.result = "lose"
                 THEN [moved EXCEPT !.status = "finished",
                                    !.winner = getOpponent(color),
                                    !.result = "five"]
                 ELSE IF outcome.result = "win"
                 THEN [moved EXCEPT !.status = "finished",
                                    !.winner = color,
                                    !.result = "four"]
                 ELSE moved
    IN  [ok |-> TRUE, error |-> Null, state |-> final,
         input |-> inputAfter(state, final, shared), shared |-> shared]

finishAction(state, next, shared, board, placed, action, from, to, flipped) ==
    LET color == action.color
        outcome == evaluateOutcome(board, color)
        lastMove == [type |-> action.type, color |-> color,
                     from |-> from, to |-> to, flipped |-> flipped]
        moved == [next EXCEPT !.board = board, !.placed = placed, !.lastMove = lastMove]
        final == IF outcome.result = "lose"
                 THEN [moved EXCEPT !.status = "finished",
                                    !.winner = getOpponent(color),
                                    !.result = "five"]
                 ELSE IF outcome.result = "win"
                 THEN [moved EXCEPT !.status = "finished",
                                    !.winner = color,
                                    !.result = "four"]
                 ELSE [moved EXCEPT !.turn = getOpponent(color)]
    IN  [ok |-> TRUE, error |-> Null, state |-> final,
         input |-> inputAfter(state, final, shared), shared |-> shared]

\* lines 416-437; the variant looks at the target cell before it looks at the
\* number of pieces placed (lines 426, 431)
applyPlaceOccupiedFirst(state, next, shared, action) ==
    LET color == action.color
        to == action.to
    IN  IF to = NullRef \/ ~inBounds(to.row, to.col)
        THEN reject(state, "invalid_target")
        ELSE IF next.board[to.row][to.col] # Null
        THEN reject(state, "occupied")
        ELSE IF noPiecesLeft(next.placed, color)
        THEN reject(state, "no_pieces_left")
        ELSE LET res == placePiece(next.board, color, to)
             IN  finishAction(state, next, shared, res.board,
                              [next.placed EXCEPT ![color] = @ + 1],
                              action, NullRef, to, res.flipped)

\* lines 416-437
applyPlace(state, next, shared, action) ==
    LET color == action.color
        to == action.to
    IN  IF to = NullRef \/ ~inBounds(to.row, to.col)
        THEN reject(state, "invalid_target")
        ELSE IF noPiecesLeft(next.placed, color)
        THEN reject(state, "no_pieces_left")
        ELSE IF next.board[to.row][to.col] # Null
        THEN reject(state, "occupied")
        ELSE LET res == placePiece(next.board, color, to)
             IN  finishAction(state, next, shared, res.board,
                              [next.placed EXCEPT ![color] = @ + 1],
                              action, NullRef, to, res.flipped)

\* lines 439-471; the variant looks at the destination before it looks at the
\* piece on the source cell (lines 450, 455)
applyMoveOccupiedFirst(state, next, shared, action) ==
    LET color == action.color
        from == action.from
        to == action.to
    IN  IF from = NullRef \/ to = NullRef
           \/ ~inBounds(from.row, from.col) \/ ~inBounds(to.row, to.col)
        THEN reject(state, "invalid_target")
        ELSE IF next.board[to.row][to.col] # Null
        THEN reject(state, "occupied")
        ELSE IF next.board[from.row][from.col] # color
        THEN reject(state, "not_your_piece")
        ELSE IF ~isValidMove(next.board, color, from, to)
        THEN reject(state, "invalid_move")
        ELSE LET res == movePiece(next.board, color, from, to)
             IN  finishAction(state, next, shared, res.board, next.placed,
                              action, from, to, res.flipped)

\* lines 439-471
applyMove(state, next, shared, action) ==
    LET color == action.color
        from == action.from
        to == action.to
    IN  IF from = NullRef \/ to = NullRef
           \/ ~inBounds(from.row, from.col) \/ ~inBounds(to.row, to.col)
        THEN reject(state, "invalid_target")
        ELSE IF next.board[from.row][from.col] # color
        THEN reject(state, "not_your_piece")
        ELSE IF next.board[to.row][to.col] # Null
        THEN reject(state, "occupied")
        ELSE IF ~isValidMove(next.board, color, from, to)
        THEN reject(state, "invalid_move")
        ELSE LET res == movePiece(next.board, color, from, to)
             IN  finishAction(state, next, shared, res.board, next.placed,
                              action, from, to, res.flipped)

\* lines 395-505; the variant has no branch for an unknown type (lines
\* 473-475) and returns nothing for it
applyNormalizedNoElse(state, next, shared, action) ==
    LET type == action.type
        color == action.color
    IN  IF gameNotActive(next) THEN reject(state, "game_not_active")
        ELSE IF color # next.turn THEN reject(state, "not_your_turn")
        ELSE IF color # "black" /\ color # "white" THEN reject(state, "invalid_color")
        ELSE IF type = "place" THEN applyPlace(state, next, shared, action)
        ELSE IF type = "move" THEN applyMove(state, next, shared, action)
        ELSE reject(state, Null)

\* lines 395-505; the variant looks at the type of the action before it looks
\* at the turn (lines 403, 473)
applyNormalizedTypeFirst(state, next, shared, action) ==
    LET type == action.type
        color == action.color
    IN  IF gameNotActive(next) THEN reject(state, "game_not_active")
        ELSE IF type # "place" /\ type # "move" THEN reject(state, "invalid_action")
        ELSE IF color # next.turn THEN reject(state, "not_your_turn")
        ELSE IF color # "black" /\ color # "white" THEN reject(state, "invalid_color")
        ELSE IF type = "place" THEN applyPlace(state, next, shared, action)
        ELSE applyMove(state, next, shared, action)

\* lines 395-505: applyAction after its first line, on the copy next
applyNormalized(state, next, shared, action) ==
    LET type == action.type
        color == action.color
    IN  IF gameNotActive(next) THEN reject(state, "game_not_active")
        ELSE IF color # next.turn THEN reject(state, "not_your_turn")
        ELSE IF color # "black" /\ color # "white" THEN reject(state, "invalid_color")
        ELSE IF type = "place" THEN applyPlace(state, next, shared, action)
        ELSE IF type = "move" THEN applyMove(state, next, shared, action)
        ELSE reject(state, "invalid_action")

applyAction(state, action) ==
    applyNormalized(state, normalizeState(state), normalizeShared(state), action)

\* applyAction(state, actions[i]) for every action record of a list; each
\* call's copy of the state has the same contents
applyEach(state, actions) ==
    LET next == normalizeState(state)
        shared == normalizeShared(state)
    IN  [i \in DOMAIN actions |-> applyNormalized(state, next, shared, actions[i])]

(***************************************************************************)
(* The runs.  A run starts from createWaitingState(), from                 *)
(* createNewGameState(), or from a position reached from                   *)
(* createNewGameState() by replaying an opening through applyAction, and   *)
(* then applies action records over the scenario's cells: accepted actions *)
(* up to MaxPlies, rejected ones without limit.  The caller keeps the      *)
(* returned state of an accepted action and its own state object           *)
(* otherwise.                                                              *)
(***************************************************************************)
MaxPlies == 2

at(row, col) == [row |-> row, col |-> col]

place(color, row, col) ==
    [type |-> "place", color |-> color, from |-> NullRef, to |-> at(row, col)]

move(color, fromRow, fromCol, toRow, toCol) ==
    [type |-> "move", color |-> color, from |-> at(fromRow, fromCol), to |-> at(toRow, toCol)]

RECURSIVE replay(_, _)
replay(state, actions) ==
    IF actions = << >> THEN state
    ELSE LET r == applyAction(state, actions[1])
         IN  replay(IF r.ok THEN r.state ELSE state, Tail(actions))

Scenarios ==
    << \* 1: a room before both players are ready
       [start |-> createWaitingState, opening |-> << >>,
        cells |-> << <<0, 0>>, <<0, 1>>, <<1, 1>> >>],
       \* 2: a new game
       [start |-> createNewGameState, opening |-> << >>,
        cells |-> << <<0, 1>>, <<0, 2>>, <<0, 3>>, <<1, 1>>, <<1, 2>>, <<1, 3>> >>],
       \* 3: black can sandwich white in two directions from (2,1), in one from (2,0)
       [start |-> createNewGameState,
        opening |-> << place("black", 1, 0), place("white", 2, 2),
                       place("black", 2, 4), place("white", 2, 3),
                       place("black", 4, 1), place("white", 3, 1),
                       place("black", 4, 2), place("white", 0, 4) >>,
        cells |-> << <<1, 0>>, <<2, 0>>, <<2, 1>>, <<1, 1>>, <<3, 1>>, <<2, 2>> >>],
       \* 4: both colors have two pairs on a row around a gap
       [start |-> createNewGameState,
        opening |-> << place("black", 0, 0), place("white", 4, 0),
                       place("black", 0, 1), place("white", 4, 1),
                       place("black", 0, 3), place("white", 4, 3),
                       place("black", 0, 4), place("white", 4, 4),
                       place("black", 1, 2), place("white", 3, 2) >>,
        cells |-> << <<0, 2>>, <<1, 2>>, <<1, 1>>, <<1, 3>>, <<3, 2>>, <<4, 2>> >>],
       \* 5: both colors have placed five pieces
       [start |-> createNewGameState,
        opening |-> << place("black", 0, 0), place("white", 4, 0),
                       place("black", 0, 2), place("white", 4, 2),
                       place("black", 0, 4), place("white", 4, 4),
                       place("black", 2, 0), place("white", 2, 4),
                       place("black", 2, 2), place("white", 3, 1) >>,
        cells |-> << <<1, 0>>, <<1, 1>>, <<1, 2>>, <<2, 1>>, <<3, 1>> >>],
       \* 6: pieces at the ends of the diagonals of their own zones
       [start |-> createNewGameState,
        opening |-> << place("black", 0, 2), place("white", 0, 1),
                       place("black", 4, 4), place("white", 4, 0) >>,
        cells |-> << <<0, 2>>, <<1, 1>>, <<2, 0>>, <<0, 1>>, <<1, 2>>, <<2, 3>>, <<3, 4>> >>],
       \* 7: three on the main diagonal for black, three on the last column for white
       [start |-> createNewGameState,
        opening |-> << place("black", 0, 0), place("white", 0, 4),
                       place("black", 1, 1), place("white", 1, 4),
                       place("black", 2, 2), place("white", 3, 4) >>,
        cells |-> << <<3, 3>>, <<4, 4>>, <<2, 4>>, <<2, 3>>, <<3, 4>> >>],
       \* 8: from (0,2) black sandwiches white along the first row and down the
       \*    third column at once, but not the white piece at (1,3)
       [start |-> createNewGameState,
        opening |-> << place("black", 0, 0), place("white", 0, 1),
                       place("black", 0, 4), place("white", 0, 3),
                       place("black", 3, 2), place("white", 1, 2),
                       place("black", 1, 1), place("white", 2, 2),
                       place("black", 4, 0), place("white", 1, 3) >>,
        cells |-> << <<0, 2>>, <<1, 1>>, <<1, 2>>, <<2, 1>>, <<1, 3>> >>],
       \* 9: white has placed six pieces; black's last move flipped one of
       \* them and closed the ring around the other five
       [start |-> createNewGameState,
        opening |-> << place("black", 0, 3), place("white", 0, 0),
                       place("black", 1, 2), place("white", 0, 1),
                       place("black", 1, 3), place("white", 0, 2),
                       place("black", 2, 2), place("white", 1, 0),
                       place("black", 3, 0), place("white", 1, 1),
                       place("black", 4, 4), place("white", 2, 1),
                       move("black", 3, 0, 2, 0) >>,
        cells |-> << <<0, 2>>, <<1, 1>>, <<1, 2>>, <<2, 3>> >>] >>

startState(s) == replay(Scenarios[s].start, Scenarios[s].opening)

\* The action records of a scenario, in a fixed order: type "place", "move"
\* or another; color black, white or another; each coordinate one of the
\* scenario's cells, off the board on either side, or missing.
coordList(s) ==
    LET cells == Scenarios[s].cells
    IN  [i \in DOMAIN cells |-> at(cells[i][1], cells[i][2])]
        \o <<at(-1, 0), at(0, BOARD_SIZE), NullRef>>

colorList == <<"black", "white", "red">>

placeList(s) ==
    LET coords == coordList(s)
        n == Len(coords)
    IN  [i \in 1 .. (Len(colorList) * n) |->
            [type |-> "place",
             color |-> colorList[((i - 1) \div n) + 1],
             from |-> NullRef,
             to |-> coords[((i - 1) % n) + 1]]]

moveList(s) ==
    LET coords == coordList(s)
        n == Len(coords)
    IN  [i \in 1 .. (Len(colorList) * n * n) |->
            [type |-> "move",
             color |-> colorList[((i - 1) \div (n * n)) + 1],
             from |-> coords[(((i - 1) \div n) % n) + 1],
             to |-> coords[((i - 1) % n) + 1]]]

otherList ==
    [i \in DOMAIN colorList |->
        [type |-> "pass", color |-> colorList[i], from |-> NullRef, to |-> NullRef]]

ActionList == [s \in DOMAIN Scenarios |-> placeList(s) \o moveList(s) \o otherList]

\* the last call: the input state's contents when the call was made (before)
\* and when it returned (input), and the result
noCall ==
    [ok |-> FALSE, error |-> Null, before |-> NullRef, input |-> NullRef, shared |-> {}]

returned(state, r) ==
    [ok |-> r.ok, error |-> r.error, before |-> state, input |-> r.input,
     shared |-> r.shared]

Init ==
    /\ scenario \in DOMAIN Scenarios
    /\ game = startState(scenario)
    /\ last = noCall
    /\ plies = 0
    /\ server = initDb

Accepted ==
    /\ plies < MaxPlies
    /\ \E results \in {applyEach(game, ActionList[scenario])} :
          \E i \in DOMAIN results :
              \E r \in {results[i]} :
                  /\ r.ok
                  /\ game' = r.state
                  /\ last' = returned(game, r)
    /\ plies' = plies + 1
    /\ UNCHANGED <<scenario, server>>

\* all rejected calls with one error code leave the same result behind; one
\* of them stands for each code
Rejected ==
    /\ \E results \in {applyEach(game, ActionList[scenario])} :
          \E e \in {results[i].error : i \in DOMAIN results} \ {Null} :
              \E r \in {results[CHOOSE i \in DOMAIN results : results[i].error = e]} :
                  /\ game' = r.input
                  /\ last' = returned(game, r)
    /\ UNCHANGED <<plies, scenario, server>>

Next == Accepted \/ Rejected

Spec == Init /\ [][Next]_vars

\* every action of every opening is accepted, so that startState is the
\* position the opening's comment describes
OpeningsAccepted ==
    \A s \in DOMAIN Scenarios :
        \/ Scenarios[s].start.status # "playing"
        \/ /\ startState(s).status = "playing"
           /\ \A k \in DOMAIN Scenarios[s].opening :
                 applyAction(replay(Scenarios[s].start,
                                    SubSeq(Scenarios[s].opening, 1, k - 1)),
                             Scenarios[s].opening[k]).ok

(***************************************************************************)
(* Stored states.  normalizeState and applyAction take whatever object the *)
(* caller has stored.  StoredSpec starts from a stored value, sound or     *)
(* malformed, over the board and the actions of a scenario, and makes one  *)
(* call on it: normalizeState, or applyAction with an action of the        *)
(* scenario.                                                               *)
(***************************************************************************)
StoredScenarios == {s \in DOMAIN Scenarios : Len(Scenarios[s].opening) >= 8}

\* a board whose second row is no array and which holds an unknown value
brokenBoard(board) ==
    [row \in Rows |->
        IF row = 1 THEN NullRef
        ELSE [col \in Cols |-> IF col = row THEN "red" ELSE board[row][col]]]

startStates == [s \in DOMAIN Scenarios |-> startState(s)]

\* the values stored for each field, in a fixed order
StoredBoards(s) == <<NullRef, startStates[s].board, brokenBoard(startStates[s].board)>>

StoredPlaced(s) ==
    <<NullRef, startStates[s].placed, [black |-> 7, white |-> -1], [black |-> NaN, white |-> 3]>>

StoredTurns == <<Null, "white", "red">>

StoredStatuses == <<Null, "playing", "finished", "bogus">>

StoredWinners == <<Null, "black">>

StoredState(s, b, p, t, st, w) ==
    [board |-> StoredBoards(s)[b],
     placed |-> StoredPlaced(s)[p],
     turn |-> StoredTurns[t],
     status |-> StoredStatuses[st],
     ready |-> IF StoredBoards(s)[b] = NullRef
               THEN NullRef ELSE [black |-> TRUE, white |-> FALSE],
     winner |-> StoredWinners[w],
     result |-> IF StoredWinners[w] = Null THEN Null ELSE "four",
     lastMove |-> NullRef]

normalized(state) == [call |-> "normalizeState", before |-> state]

StoredInit ==
    /\ scenario \in StoredScenarios
    /\ \/ game = NullRef
       \/ \E b \in DOMAIN StoredBoards(scenario), p \in DOMAIN StoredPlaced(scenario),
             t \in DOMAIN StoredTurns, st \in DOMAIN StoredStatuses,
             w \in DOMAIN StoredWinners :
                game = StoredState(scenario, b, p, t, st, w)
    /\ last = noCall
    /\ plies = 0
    /\ server = initDb

NormalizeStored ==
    /\ last = noCall
    /\ game' = normalizeState(game)
    /\ last' = normalized(game)
    /\ UNCHANGED <<plies, scenario, server>>

AcceptedStored ==
    /\ last = noCall
    /\ \E results \in {applyEach(game, ActionList[scenario])} :
          \E i \in DOMAIN results :
              \E r \in {results[i]} :
                  /\ r.ok
                  /\ game' = r.state
                  /\ last' = returned(game, r)
    /\ plies' = plies + 1
    /\ UNCHANGED <<scenario, server>>

RejectedStored ==
    /\ last = noCall
    /\ \E results \in {applyEach(game, ActionList[scenario])} :
          \E e \in {results[i].error : i \in DOMAIN results} \ {Null} :
              \E r \in {results[CHOOSE i \in DOMAIN results : results[i].error = e]} :
                  /\ game' = r.input
                  /\ last' = returned(game, r)
    /\ UNCHANGED <<plies, scenario, server>>

StoredNext == NormalizeStored \/ AcceptedStored \/ RejectedStored

StoredSpec == StoredInit /\ [][StoredNext]_vars

(***************************************************************************)
(* The computer player, src/server/ai.js.  listActions builds its list in  *)
(* the order of the loops of the source; a list is the array of actions    *)
(* with the set of the keys already used.                                  *)
(***************************************************************************)
DIRECTIONS ==
    << <<1, 0>>, <<-1, 0>>, <<0, 1>>, <<0, -1>>,
       <<1, 1>>, <<1, -1>>, <<-1, 1>>, <<-1, -1>> >>

DIAG_DIRECTIONS == << <<1, 1>>, <<1, -1>>, <<-1, 1>>, <<-1, -1>> >>

\* the cells in the order of the two nested loops over row and col
cellList ==
    [k \in 1..(BOARD_SIZE * BOARD_SIZE) |->
        at((k - 1) \div BOARD_SIZE, (k - 1) % BOARD_SIZE)]

\* `p-row-col` or `m-row-col-toRow-toCol`
actionKey(action) ==
    IF action.type = "place"
    THEN <<"p", action.to.row, action.to.col>>
    ELSE <<"m", action.from.row, action.from.col, action.to.row, action.to.col>>

addAction(list, action) ==
    IF actionKey(action) \in list.used THEN list
    ELSE [actions |-> Append(list.actions, action),
          used |-> list.used \cup {actionKey(action)}]

RECURSIVE addEach(_, _, _, _)
\* addAction for the actions from the lo-th to the hi-th, in order.  The
\* loop is split in halves to keep the recursion shallow; half is the list
\* after the first half, computed before the second half starts.
addEach(list, actions, lo, hi) ==
    IF lo > hi THEN list
    ELSE IF lo = hi THEN addAction(list, actions[lo])
    ELSE CHOOSE r \in {addEach(half, actions, (lo + hi) \div 2 + 1, hi) :
                          half \in {addEach(list, actions, lo, (lo + hi) \div 2)}} : TRUE

RECURSIVE concat(_, _, _)
\* the lists from the lo-th to the hi-th, one after the other
concat(lists, lo, hi) ==
    IF lo > hi THEN << >>
    ELSE IF lo = hi THEN lists[lo]
    ELSE concat(lists, lo, (lo + hi) \div 2) \o concat(lists, (lo + hi) \div 2 + 1, hi)

\* lines 80-89
placeCandidates(state, color) ==
    IF state.placed[color] < MAX_PIECES
    THEN concat([k \in DOMAIN cellList |->
                    LET cell == cellList[k]
                    IN  IF state.board[cell.row][cell.col] = Null
                        THEN <<place(color, cell.row, cell.col)>>
                        ELSE << >>], 1, Len(cellList))
    ELSE << >>

\* lines 102-118
stepCandidates(state, color, row, col) ==
    concat([k \in DOMAIN DIRECTIONS |->
               LET toRow == row + DIRECTIONS[k][1]
                   toCol == col + DIRECTIONS[k][2]
               IN  IF ~inBounds(toRow, toCol) THEN << >>
                   ELSE IF state.board[toRow][toCol] # Null THEN << >>
                   ELSE <<move(color, row, col, toRow, toCol)>>], 1, Len(DIRECTIONS))

\* a walk that goes on over occupied cells
RECURSIVE slideWalkOverPieces(_, _, _, _, _, _, _)
slideWalkOverPieces(state, color, row, col, dr, dc, step) ==
    LET toRow == row + dr * step
        toCol == col + dc * step
    IN  IF ~inBounds(toRow, toCol) THEN << >>
        ELSE IF getCellType(toRow, toCol) # color THEN << >>
        ELSE (IF step >= 2 /\ state.board[toRow][toCol] = Null
              THEN <<move(color, row, col, toRow, toCol)>> ELSE << >>)
             \o slideWalkOverPieces(state, color, row, col, dr, dc, step + 1)

\* lines 127-156, the while loop of one diagonal direction
RECURSIVE slideWalk(_, _, _, _, _, _, _)
slideWalk(state, color, row, col, dr, dc, step) ==
    LET toRow == row + dr * step
        toCol == col + dc * step
    IN  IF ~inBounds(toRow, toCol) THEN << >>
        ELSE IF getCellType(toRow, toCol) # color THEN << >>
        ELSE IF state.board[toRow][toCol] # Null THEN << >>
        ELSE (IF step >= 2 THEN <<move(color, row, col, toRow, toCol)>> ELSE << >>)
             \o slideWalk(state, color, row, col, dr, dc, step + 1)

\* lines 122-157
slideCandidates(state, color, row, col) ==
    IF getCellType(row, col) # color THEN << >>
    ELSE concat([k \in DOMAIN DIAG_DIRECTIONS |->
                    slideWalk(state, color, row, col,
                              DIAG_DIRECTIONS[k][1], DIAG_DIRECTIONS[k][2], 1)],
                1, Len(DIAG_DIRECTIONS))

\* lines 92-159
moveCandidates(state, color) ==
    concat([k \in DOMAIN cellList |->
               LET cell == cellList[k]
               IN  IF state.board[cell.row][cell.col] # color THEN << >>
                   ELSE stepCandidates(state, color, cell.row, cell.col)
                        \o slideCandidates(state, color, cell.row, cell.col)],
           1, Len(cellList))

\* In the definitions of this section `CHOOSE r \in {e(x) : x \in {d}} : TRUE`
\* is e(x) for x the value of d: it gives the value a name, so that it is
\* computed once.
listActions(state, color) ==
    CHOOSE list \in
        {addEach([actions |-> << >>, used |-> {}], candidates, 1, Len(candidates)).actions :
            candidates \in {placeCandidates(state, color) \o moveCandidates(state, color)}} :
        TRUE

\* lines 170-180
countPieces(board, color) ==
    Cardinality({k \in DOMAIN cellList : board[cellList[k].row][cellList[k].col] = color})

scanDirs == << <<1, 0>>, <<0, 1>>, <<1, 1>>, <<-1, 1>> >>

RECURSIVE scanLength(_, _, _, _, _, _)
\* lines 216-223, the while loop
scanLength(board, color, r, c, dr, dc) ==
    IF inBounds(r, c) /\ board[r][c] = color
    THEN 1 + scanLength(board, color, r + dr, c + dc, dr, dc)
    ELSE 0

Min(a, b) == IF a < b THEN a ELSE b

Max(a, b) == IF a > b THEN a ELSE b

\* lines 201-213: the cells and directions in which a line of the color
\* starts, as indices of cellList and scanDirs
lineHeads(board, color) ==
    {h \in (DOMAIN cellList) \X (DOMAIN scanDirs) :
        LET row == cellList[h[1]].row
            col == cellList[h[1]].col
            dr == scanDirs[h[2]][1]
            dc == scanDirs[h[2]][2]
        IN  /\ board[row][col] = color
            /\ ~(inBounds(row - dr, col - dc) /\ board[row - dr][col - dc] = color)}

\* lines 189-234: the lines of a color counted by length, each from its
\* first cell, a length above 5 counted as 5
lineCounts(board, color) ==
    CHOOSE counts \in
        {[n \in 1..5 |->
            Cardinality({h \in heads :
                Min(scanLength(board, color, cellList[h[1]].row, cellList[h[1]].col,
                               scanDirs[h[2]][1], scanDirs[h[2]][2]), 5) = n})] :
            heads \in {lineHeads(board, color)}} :
        TRUE

\* lines 259-284, the score of a state that has no winner
heuristicScore(state, color) ==
    CHOOSE score \in
        {LET opponent == getOpponent(color)
             myLines == lines[color]
             oppLines == lines[opponent]
             lineScore ==
                 myLines[4] * 8000 + myLines[3] * 420 + myLines[2] * 60
                 + myLines[1] * 10
                 - (oppLines[4] * 8200 + oppLines[3] * 440 + oppLines[2] * 70
                    + oppLines[1] * 10)
             pieceScore == (pieces[color] - pieces[opponent]) * 5
             mobilityScore == (mobility[color] - mobility[opponent]) * 2
         IN  lineScore + pieceScore + mobilityScore :
            lines \in {[black |-> lineCounts(state.board, "black"),
                        white |-> lineCounts(state.board, "white")]},
            pieces \in {[black |-> countPieces(state.board, "black"),
                         white |-> countPieces(state.board, "white")]},
            mobility \in {[black |-> Len(listActions(state, "black")),
                           white |-> Len(listActions(state, "white"))]}} :
        TRUE

\* the variant gives the winner the score of the loser
evaluateStateSwapped(state, color) ==
    IF state.status = "finished" /\ state.winner = color THEN -100000
    ELSE IF state.status = "finished" /\ truthy(state.winner) THEN 100000
    ELSE heuristicScore(state, color)

\* lines 249-285
evaluateState(state, color) ==
    IF state.status = "finished" /\ state.winner = color THEN 100000
    ELSE IF state.status = "finished" /\ truthy(state.winner) THEN -100000
    ELSE heuristicScore(state, color)

\* lines 293-308: the turn, the two counts of placed pieces and the board,
\* a cell written b, w or _
serializeState(state) ==
    <<state.turn, state.placed.black, state.placed.white,
      [row \in Rows |-> [col \in Cols |->
          IF state.board[row][col] = "black" THEN "b"
          ELSE IF state.board[row][col] = "white" THEN "w"
          ELSE "_"]]>>

\* a number above every score, for Infinity (lines 363, 414)
Infinity == 1000000000

\* lines 328, 350-351, 407: the table is the list of its entries
tableGet(table, key) ==
    IF \E k \in DOMAIN table : table[k].key = key
    THEN table[CHOOSE k \in DOMAIN table : table[k].key = key]
    ELSE NullRef

tableSet(table, key, entry) ==
    SelectSeq(table, LAMBDA e : e.key # key)
        \o <<[key |-> key, score |-> entry.score, depth |-> entry.depth,
              bestAction |-> entry.bestAction]>>

\* line 349, the key of a node in the table
cacheKey(current, depth) == <<serializeState(current), depth>>

\* what evaluateAtDepth returns, with the table and the clock it leaves
\* behind; bestAction is NullRef where the source returns none or null.
\* The record also carries what the call did around the node:
\*   input  - the contents of the node's state object when the call returns;
\*   shared - the parts of a state made below the node that are objects of
\*            the state it was made from;
\*   open   - where the call timed out, the keys of the nodes the timeout
\*            went through, from the node whose reading of the clock found
\*            the deadline passed up to this node.
evaluated(score, timedOut, bestAction, table, now, input, shared, open) ==
    [score |-> score, timedOut |-> timedOut, bestAction |-> bestAction,
     table |-> table, now |-> now, input |-> input, shared |-> shared,
     open |-> open]

\* the variant keeps the first action whose child was evaluated
tryChildKeepingFirst(current, color, action, loop, child) ==
    LET maximizing == current.turn = color
        better == loop.bestAction = NullRef
        bestScore == IF better THEN child.score ELSE loop.bestScore
        alpha == IF maximizing THEN Max(loop.alpha, bestScore) ELSE loop.alpha
        beta == IF maximizing THEN loop.beta ELSE Min(loop.beta, bestScore)
    IN  IF child.timedOut
        THEN [loop EXCEPT !.stop = "return", !.table = child.table, !.now = child.now]
        ELSE [loop EXCEPT !.alpha = alpha, !.beta = beta, !.bestScore = bestScore,
                          !.bestAction = IF better THEN action ELSE loop.bestAction,
                          !.table = child.table, !.now = child.now,
                          !.stop = IF alpha >= beta THEN "break" ELSE ""]

\* lines 374-402, the loop's turn after the child has been evaluated.  loop
\* holds alpha, beta, bestScore, bestAction, the table and the clock, and in
\* stop whether the loop has been left: by a break (lines 389, 400) or by
\* the return of line 378.
tryChild(current, color, action, loop, child) ==
    LET maximizing == current.turn = color
        better == IF maximizing THEN child.score > loop.bestScore
                  ELSE child.score < loop.bestScore
        bestScore == IF better THEN child.score ELSE loop.bestScore
        alpha == IF maximizing THEN Max(loop.alpha, bestScore) ELSE loop.alpha
        beta == IF maximizing THEN loop.beta ELSE Min(loop.beta, bestScore)
    IN  IF child.timedOut
        THEN [loop EXCEPT !.stop = "return", !.table = child.table, !.now = child.now]
        ELSE [loop EXCEPT !.alpha = alpha, !.beta = beta, !.bestScore = bestScore,
                          !.bestAction = IF better THEN action ELSE loop.bestAction,
                          !.table = child.table, !.now = child.now,
                          !.stop = IF alpha >= beta THEN "break" ELSE ""]

RECURSIVE evaluateAtDepth(_, _, _, _, _, _, _, _)
RECURSIVE tryActions(_, _, _, _, _, _, _)

\* lines 368-403, one turn of the loop over the actions.  loop.current is
\* the node's state object as the calls of applyAction so far have left it.
tryAction(color, deadline, depth, action, loop) ==
    IF loop.stop # "" THEN loop
    ELSE
    CHOOSE next \in
        {IF ~result.ok THEN [loop EXCEPT !.current = result.input]
         ELSE CHOOSE after \in
                  {[tryChild(loop.current, color, action, loop, child) EXCEPT
                       !.current = result.input,
                       !.shared = loop.shared \cup result.shared \cup child.shared,
                       !.open = child.open] :
                      child \in {evaluateAtDepth(result.state, color, deadline, depth - 1,
                                                 loop.alpha, loop.beta, loop.table,
                                                 loop.now)}} :
                  TRUE :
            result \in {applyAction(loop.current, action)}} :
        TRUE

\* the turns of the loop for the actions from the lo-th to the hi-th, split
\* in halves as in addEach
tryActions(color, deadline, depth, actions, lo, hi, loop) ==
    IF lo = hi THEN tryAction(color, deadline, depth, actions[lo], loop)
    ELSE CHOOSE r \in {tryActions(color, deadline, depth, actions,
                                     (lo + hi) \div 2 + 1, hi, half) :
                          half \in {tryActions(color, deadline, depth, actions,
                                               lo, (lo + hi) \div 2, loop)}} : TRUE

\* the variant stores the node's entry where the loop was left by its return
endOfLoopStoring(key, depth, loop) ==
    evaluated(IF loop.stop = "return" THEN 0 ELSE loop.bestScore,
              loop.stop = "return",
              IF loop.stop = "return" THEN NullRef ELSE loop.bestAction,
              tableSet(loop.table, key,
                       [score |-> loop.bestScore, depth |-> depth,
                        bestAction |-> loop.bestAction]),
              loop.now, loop.current, loop.shared,
              IF loop.stop = "return" THEN Append(loop.open, key) ELSE << >>)

\* lines 406-408, and line 379 where the loop was left by its return; key
\* is the node's cacheKey of line 349
endOfLoop(key, depth, loop) ==
    IF loop.stop = "return"
    THEN evaluated(0, TRUE, NullRef, loop.table, loop.now, loop.current,
                   loop.shared, Append(loop.open, key))
    ELSE evaluated(loop.bestScore, FALSE, loop.bestAction,
                   tableSet(loop.table, key,
                            [score |-> loop.bestScore, depth |-> depth,
                             bestAction |-> loop.bestAction]),
                   loop.now, loop.current, loop.shared, << >>)

\* lines 337-409.  now counts the readings of the clock so far; the
\* deadline has passed at the reading after the deadline-th.  The first two
\* returns (lines 339-346) differ in timedOut only.
evaluateAtDepth(current, color, deadline, depth, alpha, beta, table, now) ==
    IF now + 1 > deadline \/ depth = 0 \/ current.status = "finished"
    THEN evaluated(evaluateState(current, color), now + 1 > deadline, NullRef,
                   table, now + 1, current, {},
                   IF now + 1 > deadline THEN <<cacheKey(current, depth)>> ELSE << >>)
    ELSE
    CHOOSE r \in
        {IF cached # NullRef /\ cached.depth >= depth
         THEN evaluated(cached.score, FALSE, cached.bestAction, table, now + 1,
                        current, {}, << >>)
         ELSE IF Len(actions) = 0
         THEN evaluated(evaluateState(current, color), FALSE, NullRef, table, now + 1,
                        current, {}, << >>)
         ELSE CHOOSE e \in
                  {endOfLoop(key, depth, loop) :
                      loop \in {tryActions(color, deadline, depth, actions,
                                           1, Len(actions),
                                           [alpha |-> alpha, beta |-> beta,
                                            bestScore |-> IF current.turn = color
                                                          THEN -Infinity ELSE Infinity,
                                            bestAction |-> NullRef, table |-> table,
                                            now |-> now + 1, stop |-> "",
                                            current |-> current, shared |-> {},
                                            open |-> << >>])}} :
                  TRUE :
            key \in {cacheKey(current, depth)},
            cached \in {tableGet(table, cacheKey(current, depth))},
            actions \in {listActions(current, current.turn)}} :
        TRUE

\* what one turn of the loop of the depths did
searchedDepth(depth, result) ==
    [depth |-> depth, timedOut |-> result.timedOut, bestAction |-> result.bestAction,
     score |-> result.score, table |-> result.table, now |-> result.now,
     open |-> result.open]

\* the variant goes on to the next depth after a depth that timed out
afterDepthNoBreak(run, depth, result) ==
    [best |-> IF ~result.timedOut /\ result.bestAction # NullRef
              THEN result.bestAction ELSE run.best,
     depths |-> Append(run.depths, searchedDepth(depth, result)),
     table |-> result.table, now |-> result.now, input |-> result.input,
     shared |-> run.shared \cup result.shared, stop |-> FALSE]

\* the variant keeps the action of the first depth that gave one
afterDepthKeepingFirst(run, depth, result) ==
    [best |-> IF run.best = NullRef /\ ~result.timedOut THEN result.bestAction
              ELSE run.best,
     depths |-> Append(run.depths, searchedDepth(depth, result)),
     table |-> result.table, now |-> result.now, input |-> result.input,
     shared |-> run.shared \cup result.shared, stop |-> result.timedOut]

\* lines 414-423, one turn of the loop of the depths.  run holds best, the
\* table and the clock, what the turns so far did (depths), the state
\* object as they left it (input), and in stop whether the loop has been
\* left by the break of line 419.
afterDepth(run, depth, result) ==
    [best |-> IF ~result.timedOut /\ result.bestAction # NullRef
              THEN result.bestAction ELSE run.best,
     depths |-> Append(run.depths, searchedDepth(depth, result)),
     table |-> result.table, now |-> result.now, input |-> result.input,
     shared |-> run.shared \cup result.shared, stop |-> result.timedOut]

RECURSIVE deepen(_, _, _, _, _)
\* lines 412-424, the loop of the depths from depth on
deepen(color, deadline, maxDepth, depth, run) ==
    IF depth > maxDepth \/ run.stop THEN run
    ELSE CHOOSE r \in
             {deepen(color, deadline, maxDepth, depth + 1, next) :
                 next \in {afterDepth(run, depth,
                               evaluateAtDepth(run.input, color, deadline, depth,
                                               -Infinity, Infinity, run.table,
                                               run.now))}} :
             TRUE

\* the variant falls back on the last action of the list
fallbackActionLast(fallback) ==
    IF Len(fallback) > 0 THEN fallback[Len(fallback)] ELSE NullRef

\* lines 432-433
fallbackAction(fallback) ==
    IF Len(fallback) > 0 THEN fallback[1] ELSE NullRef

\* lines 321-434 with what the call did: the action returned, the turns of
\* the loop of the depths, the contents of the caller's state object when
\* the call returns, and the parts of states that were shared.
\* options.maxDepth of 0 stands for an option not given; deadline is the
\* number of readings of the clock that find time left.
search(state, color, options, deadline) ==
    CHOOSE s \in
        {[action |-> IF run.best # NullRef THEN run.best
                     ELSE fallbackAction(listActions(run.input, color)),
          depths |-> run.depths, input |-> run.input, shared |-> run.shared] :
            run \in {deepen(color, deadline,
                            IF options.maxDepth = 0 THEN 4 ELSE options.maxDepth,
                            1,
                            [best |-> NullRef, depths |-> << >>, table |-> << >>,
                             now |-> 0, input |-> state, shared |-> {},
                             stop |-> FALSE])}} :
        TRUE

\* lines 321-434, the action returned
searchBestMove(state, color, options, deadline) ==
    search(state, color, options, deadline).action

(***************************************************************************)
(* The runs of the computer player.  AiSpec starts where Spec starts.  On  *)
(* a position it calls listActions or searchBestMove for either color, or  *)
(* lets the computer play the turn as maybeRunCpuTurn does.  The time the  *)
(* search has is not in the program's hands: any number of readings of the *)
(* clock up to MaxNodes may find time left.                                *)
(***************************************************************************)
AiPlies == 1

MaxNodes == 60

\* options.maxDepth, 0 for an option not given
Depths == {0, 1, 2}

Deadlines == {0, 1, MaxNodes}

listed(color, actions) ==
    [call |-> "listActions", color |-> color, actions |-> actions]

\* s is what search gives: best is the action returned
searched(color, options, deadline, s) ==
    [call |-> "searchBestMove", color |-> color, options |-> options,
     deadline |-> deadline, best |-> s.action, depths |-> s.depths,
     input |-> s.input, shared |-> s.shared]

played(color, action, r) ==
    [call |-> "maybeRunCpuTurn", color |-> color, action |-> action, ok |-> r.ok]

\* no call of the computer player has been made on the position
fresh == IF last = noCall THEN TRUE ELSE last.call = "maybeRunCpuTurn"

ListActions ==
    /\ fresh
    /\ \E color \in Colors :
          last' = listed(color, listActions(game, color))
    /\ UNCHANGED <<game, plies, scenario, server>>

SearchBestMove ==
    /\ fresh
    /\ \E color \in Colors, maxDepth \in Depths, deadline \in Deadlines :
          \E s \in {search(game, color, [maxDepth |-> maxDepth], deadline)} :
              last' = searched(color, [maxDepth |-> maxDepth], deadline, s)
    /\ UNCHANGED <<game, plies, scenario, server>>

\* src/client/src/socket.js lines 623-690, for a room whose computer player
\* has the color and the options
CpuTurn ==
    /\ fresh
    /\ plies < AiPlies
    /\ game.status = "playing"
    /\ \E color \in {game.turn}, maxDepth \in Depths, deadline \in Deadlines :
          \E action \in {searchBestMove(game, color, [maxDepth |-> maxDepth], deadline)} :
              /\ action # NullRef
              /\ \E r \in {applyAction(game, action)} :
                    /\ r.ok
                    /\ game' = IF r.state.status = "finished"
                               THEN [r.state EXCEPT !.ready = [black |-> FALSE, white |-> FALSE]]
                               ELSE r.state
                    /\ last' = played(color, action, r)
    /\ plies' = plies + 1
    /\ UNCHANGED <<scenario, server>>

AiNext == ListActions \/ SearchBestMove \/ CpuTurn

AiSpec == Init /\ [][AiNext]_vars

(***************************************************************************)
(* The searches of two plies.  DeepSpec starts on a new game and on the    *)
(* position where both colors have placed five pieces, and calls           *)
(* searchBestMove with maxDepth 2 for the color to move.  The deadline     *)
(* passes after any number of readings of the clock from DeepFrom to       *)
(* DeepTo, which end the search inside depth 1 or inside depth 2, or after *)
(* DeepNodes readings, which both depths finish within.                    *)
(***************************************************************************)
DeepFrom == 10
DeepTo == 60
DeepNodes == 450

DeepScenarios == {2, 5}

DeepDeadlines == (DeepFrom..DeepTo) \cup {DeepNodes}

DeepInit == Init /\ scenario \in DeepScenarios

DeepSearch ==
    /\ last = noCall
    /\ \E deadline \in DeepDeadlines :
          \E s \in {search(game, game.turn, [maxDepth |-> 2], deadline)} :
              last' = searched(game.turn, [maxDepth |-> 2], deadline, s)
    /\ UNCHANGED <<game, plies, scenario, server>>

DeepSpec == DeepInit /\ [][DeepSearch]_vars

(***************************************************************************)
(* The searches of four plies.  TableSpec starts on a position where both  *)
(* colors have placed their six pieces and white is to move:               *)
(*                                                                         *)
(*     w . . . w                                                           *)
(*     . . . b .                                                           *)
(*     . . . . b                                                           *)
(*     w . b . b                                                           *)
(*     w w w b b                                                           *)
(*                                                                         *)
(* and calls searchBestMove for white.  With no maxDepth given and a        *)
(* deadline that passes after TableNodes readings of the clock the search  *)
(* finishes its four depths; at depth 4 positions come back that an        *)
(* earlier branch of the same depth has stored.  The other calls, with     *)
(* maxDepth 1 to 3 or none, have a deadline that passes after at most      *)
(* TableTo readings.                                                       *)
(***************************************************************************)
TableTo == 24
TableNodes == 2500

TableOpening ==
    << place("black", 2, 4), place("white", 0, 0),
       place("black", 3, 2), place("white", 0, 4),
       place("black", 3, 4), place("white", 3, 0),
       place("black", 4, 3), place("white", 4, 0),
       place("black", 4, 4), place("white", 4, 1),
       place("black", 1, 2), place("white", 4, 2),
       move("black", 1, 2, 1, 3) >>

\* options.maxDepth, 0 for an option not given
TableDepths == {0, 1, 2, 3}

\* the calls: options.maxDepth and the deadline
TableCalls == (TableDepths \X (0 .. TableTo)) \cup {<<0, TableNodes>>}

\* the run starts from the new game of scenario 2
TableInit ==
    /\ scenario = 2
    /\ game = replay(startState(2), TableOpening)
    /\ last = noCall
    /\ plies = 0
    /\ server = initDb

TableSearch ==
    /\ last = noCall
    /\ \E call \in TableCalls :
          \E s \in {search(game, game.turn, [maxDepth |-> call[1]], call[2])} :
              last' = searched(game.turn, [maxDepth |-> call[1]], call[2], s)
    /\ UNCHANGED <<game, plies, scenario, server>>

TableSpec == TableInit /\ [][TableSearch]_vars

\* every action of the opening is accepted and leaves the game in play
TableOpeningAccepted ==
    \A k \in DOMAIN TableOpening :
        LET r == applyAction(replay(startState(2), SubSeq(TableOpening, 1, k - 1)),
                             TableOpening[k])
        IN  r.ok /\ r.state.status = "playing"

(***************************************************************************)
(* The move hints of the client, src/client/src/pages/RoomPage.jsx.  The   *)
(* page has its own copies of inBounds and getCellType (lines 19-28), the  *)
(* same as the server's.  getValidMoves returns a Set of the keys          *)
(* `row,col`, here the set of the pairs <<row, col>>.                      *)
(***************************************************************************)
\* lines 43-50
stepMoves(board, from) ==
    {<<from.row + DIRECTIONS[k][1], from.col + DIRECTIONS[k][2]>> : k \in
        {k \in DOMAIN DIRECTIONS :
            /\ inBounds(from.row + DIRECTIONS[k][1], from.col + DIRECTIONS[k][2])
            /\ board[from.row + DIRECTIONS[k][1]][from.col + DIRECTIONS[k][2]] = Null}}

\* the variant goes on behind a piece in the way (line 66)
RECURSIVE diagWalkOverPieces(_, _, _, _, _, _)
diagWalkOverPieces(board, color, row, col, dr, dc) ==
    IF inBounds(row, col) /\ getCellType(row, col) = color
    THEN (IF board[row][col] # Null THEN {} ELSE {<<row, col>>})
         \cup diagWalkOverPieces(board, color, row + dr, col + dc, dr, dc)
    ELSE {}

\* lines 62-72, the while loop
RECURSIVE diagWalk(_, _, _, _, _, _)
diagWalk(board, color, row, col, dr, dc) ==
    IF inBounds(row, col) /\ getCellType(row, col) = color
    THEN IF board[row][col] # Null THEN {}
         ELSE {<<row, col>>} \cup diagWalk(board, color, row + dr, col + dc, dr, dc)
    ELSE {}

\* lines 30-74
getValidMoves(board, color, from) ==
    IF getCellType(from.row, from.col) # color THEN stepMoves(board, from)
    ELSE stepMoves(board, from)
         \cup UNION {diagWalk(board, color,
                              from.row + DIAG_DIRECTIONS[k][1],
                              from.col + DIAG_DIRECTIONS[k][2],
                              DIAG_DIRECTIONS[k][1], DIAG_DIRECTIONS[k][2]) :
                        k \in DOMAIN DIAG_DIRECTIONS}

(***************************************************************************)
(* The moves.  MoveSpec starts on the positions of the scenarios that have *)
(* pieces on the board, some of them on neutral cells and at the ends of   *)
(* the diagonals of both zones, and applies move records of the color to   *)
(* move from every cell of the board to every cell of the board, up to     *)
(* MovePlies accepted moves.                                               *)
(***************************************************************************)
MovePlies == 2

MoveScenarios == {3, 4, 5, 6, 7, 8, 9}

\* the move records of a color over the board, in a fixed order
boardMoves(color) ==
    [i \in 1 .. (Len(cellList) * Len(cellList)) |->
        [type |-> "move", color |-> color,
         from |-> cellList[((i - 1) \div Len(cellList)) + 1],
         to |-> cellList[((i - 1) % Len(cellList)) + 1]]]

MoveInit == Init /\ scenario \in MoveScenarios

MoveAccepted ==
    /\ plies < MovePlies
    /\ \E results \in {applyEach(game, boardMoves(game.turn))} :
          \E i \in DOMAIN results :
              \E r \in {results[i]} :
                  /\ r.ok
                  /\ game' = r.state
                  /\ last' = returned(game, r)
    /\ plies' = plies + 1
    /\ UNCHANGED <<scenario, server>>

MoveSpec == MoveInit /\ [][MoveAccepted]_vars

\* HintSpec is MoveSpec up to HintPlies accepted moves
HintPlies == 1

HintMove ==
    /\ plies < HintPlies
    /\ \E results \in {applyEach(game, boardMoves(game.turn))} :
          \E i \in DOMAIN results :
              \E r \in {results[i]} :
                  /\ r.ok
                  /\ game' = r.state
                  /\ last' = returned(game, r)
    /\ plies' = plies + 1
    /\ UNCHANGED <<scenario, server>>

HintSpec == MoveInit /\ [][HintMove]_vars

(***************************************************************************)
(* The room.  The handlers of the server's main module (in this tree at    *)
(* src/client/src/socket.js, from line 21 on) and the seat functions of    *)
(* server/db.js, on the stores w: the fields of server, with games for the *)
(* stored game of the room.  w also carries history: started, whether the  *)
(* handler has saved a createNewGameState(), and by, readyBy at that       *)
(* moment.  A handler runs to its end without interruption, as on the      *)
(* event loop; only the callback of a timer runs later.                    *)
(***************************************************************************)
noReady == [black |-> FALSE, white |-> FALSE]

noOne == [black |-> Null, white |-> Null]

\* db.js lines 206-216
updateRoomStatus(seats) ==
    IF seats.black # Null /\ seats.white # Null THEN "playing" ELSE "waiting"

\* db.js lines 230-256; a seat that changes hands forgets who set its flag
assignSeat(w, color, userId) ==
    IF w.seats[color] # Null /\ w.seats[color] # userId
    THEN [ok |-> FALSE, reason |-> "taken", w |-> w]
    ELSE IF w.seats[getOpponent(color)] = userId
    THEN [ok |-> FALSE, reason |-> "already_seated", w |-> w]
    ELSE LET seats == [w.seats EXCEPT ![color] = userId]
         IN  [ok |-> TRUE, reason |-> Null,
              w |-> [w EXCEPT !.seats = seats,
                              !.status = updateRoomStatus(seats),
                              !.readyBy[color] = IF w.seats[color] = userId THEN @ ELSE Null]]

\* db.js lines 265-280
releaseSeat(w, color, userId) ==
    IF w.seats[color] = Null \/ w.seats[color] # userId
    THEN [ok |-> FALSE, reason |-> "not_owner", statusBefore |-> Null, w |-> w]
    ELSE LET seats == [w.seats EXCEPT ![color] = Null]
         IN  [ok |-> TRUE, reason |-> Null, statusBefore |-> w.status,
              w |-> [w EXCEPT !.seats = seats,
                              !.status = updateRoomStatus(seats),
                              !.readyBy[color] = Null]]

\* db.js lines 287-302: the seats released, black before white
releaseSeatsByUser(w, userId) ==
    LET black == releaseSeat(w, "black", userId)
        white == releaseSeat(black.w, "white", userId)
    IN  [w |-> white.w,
         released |-> (IF black.ok THEN <<[color |-> "black", statusBefore |-> black.statusBefore]>>
                       ELSE << >>)
                      \o (IF white.ok THEN <<[color |-> "white", statusBefore |-> white.statusBefore]>>
                          ELSE << >>)]

\* db.js lines 386-388; a flag that is stored as false has been set by no one
saveGame(w, state) ==
    [w EXCEPT !.games = state,
              !.readyBy = [black |-> IF state.ready.black THEN @.black ELSE Null,
                           white |-> IF state.ready.white THEN @.white ELSE Null]]

\* lines 481-497
applyCpuReady(w, state) ==
    IF w.cpuRooms = NullRef THEN state
    ELSE IF ~w.cpuRooms.enabled THEN state
    ELSE IF state.status = "playing" THEN state
    ELSE [state EXCEPT !.ready[w.cpuRooms.color] = TRUE]

\* lines 504-508
getRoomGame(w) ==
    applyCpuReady(w, IF w.games = NullRef THEN createWaitingState ELSE normalizeState(w.games))

\* lines 516-521: the stores after; the game returned is their games
broadcastGame(w, state) == saveGame(w, applyCpuReady(w, state))

\* a new game is saved: lines 546-547 and 594-595
startGame(w) ==
    [broadcastGame(w, createNewGameState) EXCEPT !.started = TRUE, !.by = w.readyBy]

\* lines 528-551: the game returned, NullRef for null, and the stores after
startGameIfReady(w) ==
    IF w.status # "playing" THEN [game |-> NullRef, w |-> w]
    ELSE LET withCpu == getRoomGame(w)
         IN  IF withCpu.status = "playing" THEN [game |-> withCpu, w |-> w]
             ELSE IF withCpu.ready.black /\ withCpu.ready.white
             THEN [game |-> startGame(w).games, w |-> startGame(w)]
             ELSE [game |-> withCpu, w |-> w]

\* getPlayerColor answering the first occupied seat, whoever sits on it
getPlayerColorOfAnyone(w, userId) ==
    IF w.seats.black # Null THEN "black"
    ELSE IF w.seats.white # Null THEN "white"
    ELSE Null

\* lines 559-567
getPlayerColor(w, userId) ==
    IF w.seats.black = userId THEN "black"
    ELSE IF w.seats.white = userId THEN "white"
    ELSE Null

\* lines 576-601
setReady(w, color, value) ==
    LET state == getRoomGame(w)
        ready == [state.ready EXCEPT ![color] = value]
        set == [w EXCEPT !.readyBy[color] = IF value THEN w.seats[color] ELSE Null]
    IN  IF state.status = "playing"
        THEN [ok |-> FALSE, error |-> "game_in_progress", started |-> FALSE, w |-> w]
        ELSE IF w.status = "playing" /\ ready.black /\ ready.white
        THEN [ok |-> TRUE, error |-> Null, started |-> TRUE, w |-> startGame(set)]
        ELSE [ok |-> TRUE, error |-> Null, started |-> FALSE,
              w |-> broadcastGame(set, [state EXCEPT !.ready = ready])]

\* lines 608-616
getCpuSeatColor(w) ==
    IF w.seats.black = cpuUserId THEN "black"
    ELSE IF w.seats.white = cpuUserId THEN "white"
    ELSE Null

\* lines 623-647: the timer is set with the configuration read here
maybeRunCpuTurn(w) ==
    IF w.cpuRooms = NullRef THEN w
    ELSE IF ~w.cpuRooms.enabled THEN w
    ELSE IF w.cpuThinking THEN w
    ELSE LET state == getRoomGame(w)
         IN  IF state.status # "playing" \/ state.turn # w.cpuRooms.color THEN w
             ELSE [w EXCEPT !.cpuThinking = TRUE, !.timers = Append(@, w.cpuRooms)]

\* lines 677-680 and 1158-1161
readyReset(state) ==
    IF state.status = "finished" THEN [state EXCEPT !.ready = noReady] ELSE state

cpuTimerLeavingFlag(w, config, deadline) ==
    LET current == getRoomGame(w)
        action == searchBestMove(current, config.color, config, deadline)
        result == applyAction(current, action)
        next == broadcastGame(w, readyReset(result.state))
        done == [next EXCEPT !.cpuThinking = FALSE]
    IN  IF current.status # "playing" \/ current.turn # config.color
        THEN [applied |-> FALSE, w |-> w]
        ELSE IF action = NullRef
        THEN [applied |-> FALSE, w |-> [w EXCEPT !.cpuThinking = FALSE]]
        ELSE IF ~result.ok
        THEN [applied |-> FALSE, w |-> [w EXCEPT !.cpuThinking = FALSE]]
        ELSE [applied |-> TRUE,
              w |-> IF next.games.status = "playing" THEN maybeRunCpuTurn(done) ELSE done]

\* lines 647-696, the callback of a timer set with config; the search stops
\* at the deadline
cpuTimer(w, config, deadline) ==
    LET current == getRoomGame(w)
        action == searchBestMove(current, config.color, config, deadline)
        result == applyAction(current, action)
        next == broadcastGame(w, readyReset(result.state))
        done == [next EXCEPT !.cpuThinking = FALSE]
    IN  IF current.status # "playing" \/ current.turn # config.color
        THEN [applied |-> FALSE, w |-> [w EXCEPT !.cpuThinking = FALSE]]
        ELSE IF action = NullRef
        THEN [applied |-> FALSE, w |-> [w EXCEPT !.cpuThinking = FALSE]]
        ELSE IF ~result.ok
        THEN [applied |-> FALSE, w |-> [w EXCEPT !.cpuThinking = FALSE]]
        ELSE [applied |-> TRUE,
              w |-> IF next.games.status = "playing" THEN maybeRunCpuTurn(done) ELSE done]

\* lines 730-762
handleForfeit(w, leaverUserId) ==
    LET winnerColor == IF w.seats.white # Null /\ w.seats.white # leaverUserId THEN "white"
                       ELSE IF w.seats.black # Null /\ w.seats.black # leaverUserId THEN "black"
                       ELSE Null
        started == startGameIfReady(w)
        state == IF started.game # NullRef THEN started.game ELSE getRoomGame(started.w)
    IN  IF winnerColor = Null THEN w
        ELSE IF state.status = "playing"
        THEN broadcastGame(started.w, [state EXCEPT !.status = "finished",
                                                    !.winner = winnerColor,
                                                    !.result = "forfeit",
                                                    !.ready = noReady])
        ELSE started.w

\* lines 940-945 and 774-779
releaseCpu(w) ==
    IF getCpuSeatColor(w) = Null THEN w
    ELSE [releaseSeat(w, getCpuSeatColor(w), cpuUserId).w EXCEPT !.cpuRooms = NullRef]

\* lines 947-957 and 781-792
resetUnlessPlaying(w, statusBefore) ==
    IF statusBefore # "playing" /\ getRoomGame(w).status # "playing"
    THEN saveGame(w, [getRoomGame(w) EXCEPT !.ready = noReady])
    ELSE w

\* lines 772-802, for one released seat
releasedSeat(w, seat, userId) ==
    LET left == resetUnlessPlaying(releaseCpu(w), seat.statusBefore)
    IN  IF seat.statusBefore = "playing" THEN handleForfeit(left, userId) ELSE left

\* lines 769-805
releaseUserSeats(w, userId) ==
    LET seats == releaseSeatsByUser(w, userId)
        first == IF Len(seats.released) >= 1
                 THEN releasedSeat(seats.w, seats.released[1], userId) ELSE seats.w
    IN  IF Len(seats.released) >= 2 THEN releasedSeat(first, seats.released[2], userId)
        ELSE first

\* what a handler leaves: its acknowledgement and the stores
acked(w) == [ok |-> TRUE, error |-> Null, w |-> w]

refused(w, error) == [ok |-> FALSE, error |-> error, w |-> w]

\* lines 829-869
roomJoin(w, userId) ==
    acked(startGameIfReady([w EXCEPT !.sockets[userId] = 1]).w)

\* lines 874-878 and 1255-1259, with leaveRoom, lines 707-723
roomLeave(w, userId) ==
    acked(releaseUserSeats([w EXCEPT !.sockets[userId] = 0], userId))

seatResetNever(w, color) == w

\* lines 902-913
seatReset(w, color) ==
    IF getRoomGame(w).status # "playing"
    THEN saveGame(w, [getRoomGame(w) EXCEPT !.ready[color] = FALSE])
    ELSE w

\* lines 883-919
seatTake(w, userId, color) ==
    LET result == assignSeat(w, color, userId)
    IN  IF w.sockets[userId] # 1 THEN refused(w, "not_in_room")
        ELSE IF ~result.ok THEN refused(w, result.reason)
        ELSE acked(startGameIfReady(seatReset(result.w, color)).w)

\* lines 924-969
seatLeave(w, userId, color) ==
    LET result == releaseSeat(w, color, userId)
        left == startGameIfReady(resetUnlessPlaying(releaseCpu(result.w), result.statusBefore)).w
    IN  IF ~result.ok THEN refused(w, result.reason)
        ELSE acked(IF result.statusBefore = "playing" THEN handleForfeit(left, userId) ELSE left)

\* lines 125-130: maxDepth of each level
CPU_LEVELS == [easy |-> 2, normal |-> 3, hard |-> 4, strong |-> 5]

\* lines 1002-1027
cpuDisable(w) ==
    LET cpuColor == getCpuSeatColor(w)
        released == [(IF cpuColor # Null THEN releaseSeat(w, cpuColor, cpuUserId).w ELSE w)
                        EXCEPT !.cpuRooms = NullRef]
        nextGame == getRoomGame(released)
    IN  broadcastGame(released,
                      IF cpuColor # Null THEN [nextGame EXCEPT !.ready[cpuColor] = FALSE]
                      ELSE nextGame)

\* lines 1042-1085, for a seat that is free or the computer's own
cpuEnable(w, color, levelRaw) ==
    LET existingCpuColor == getCpuSeatColor(w)
        released == IF existingCpuColor # Null /\ existingCpuColor # color
                    THEN releaseSeat(w, existingCpuColor, cpuUserId).w ELSE w
        assignResult == assignSeat(released, color, cpuUserId)
        level == IF levelRaw \in DOMAIN CPU_LEVELS THEN levelRaw ELSE "strong"
        configured == [assignResult.w EXCEPT !.cpuRooms =
                          [enabled |-> TRUE, color |-> color, level |-> level,
                           maxDepth |-> CPU_LEVELS[level]]]
        nextGame == getRoomGame(configured)
        broadcasted == broadcastGame(configured,
                                     IF nextGame.status # "playing"
                                     THEN [nextGame EXCEPT !.ready[color] = TRUE]
                                     ELSE nextGame)
    IN  IF ~assignResult.ok THEN refused(released, "seat_taken")
        ELSE acked(maybeRunCpuTurn(startGameIfReady(broadcasted).w))

\* lines 974-1086
cpuConfigure(w, userId, enabled, color, levelRaw) ==
    IF w.sockets[userId] # 1 THEN refused(w, "not_in_room")
    ELSE IF getRoomGame(w).status = "playing" THEN refused(w, "game_in_progress")
    ELSE IF ~enabled THEN acked(cpuDisable(w))
    ELSE IF color \notin Colors THEN refused(w, "invalid_color")
    ELSE IF w.seats[color] # Null /\ w.seats[color] # cpuUserId THEN refused(w, "seat_taken")
    ELSE cpuEnable(w, color, levelRaw)

\* lines 1098-1169; a payload has the coordinates from and to, NullRef for
\* one that is missing or no integer, and for game:place from is not read
handleGameAction(w, userId, type, payload) ==
    LET color == getPlayerColor(w, userId)
        action == [type |-> type, color |-> color,
                   from |-> IF type = "move" THEN payload.from ELSE NullRef,
                   to |-> payload.to]
        result == applyAction(getRoomGame(w), action)
    IN  IF w.sockets[userId] # 1 THEN refused(w, "not_in_room")
        ELSE IF color = Null THEN refused(w, "not_seated")
        ELSE IF payload.to = NullRef \/ (type = "move" /\ payload.from = NullRef)
        THEN refused(w, "invalid_target")
        ELSE IF ~result.ok THEN refused(w, result.error)
        ELSE acked(maybeRunCpuTurn(broadcastGame(w, readyReset(result.state))))

\* lines 1182-1218
gameReady(w, userId, nextReady) ==
    LET color == getPlayerColor(w, userId)
        result == setReady(w, color, nextReady)
    IN  IF w.sockets[userId] # 1 THEN refused(w, "not_in_room")
        ELSE IF color = Null THEN refused(w, "not_seated")
        ELSE IF ~result.ok THEN refused(w, result.error)
        ELSE acked(IF result.started THEN maybeRunCpuTurn(result.w) ELSE result.w)

(***************************************************************************)
(* RoomSpec: the room with the events of its users in every order, from    *)
(* the start of the server (scenario 1) and from the position of scenario  *)
(* 7, which u1 and u2 have come to by joining, sitting down, getting ready *)
(* and playing its opening.  A user has one socket; after a disconnect the *)
(* user's next socket starts as the old one ends, in no room.  The events  *)
(* name the room; game actions are over RoomCells and are accepted up to   *)
(* RoomPlies times, the computer's included.  A timer fires at any moment  *)
(* after it is set.  The search of the computer stops at a deadline of up  *)
(* to RoomNodes readings of the clock.  last is the last event if it was   *)
(* an accepted game action, a timer callback, the start of a game or a     *)
(* game action refused for who sent it, and noEvent after any other event. *)
(***************************************************************************)
RoomPlies == 1

RoomNodes == 1

RoomScenarios == {1, 7}

RoomCells ==
    IF scenario = 1 THEN <<at(0, 1), at(1, 1), NullRef>> ELSE <<at(2, 2), at(3, 3), NullRef>>

RoomLevels == {"easy"}

RoomColors == {"black", "white", "red"}

\* the stores a handler starts on
stores ==
    [games |-> game, seats |-> server.seats, status |-> server.status,
     cpuRooms |-> server.cpuRooms, cpuThinking |-> server.cpuThinking,
     timers |-> server.timers, sockets |-> server.sockets,
     readyBy |-> server.readyBy, started |-> FALSE, by |-> noOne]

noEvent ==
    [event |-> Null, user |-> Null, color |-> Null, ok |-> FALSE, error |-> Null,
     started |-> FALSE, by |-> noOne, applied |-> FALSE]

\* the stores and the history a handler leaves; color is the color the event
\* or the timer names
handled(event, userId, color, r, applied) ==
    /\ game' = r.w.games
    /\ server' = [seats |-> r.w.seats, status |-> r.w.status,
                  cpuRooms |-> r.w.cpuRooms, cpuThinking |-> r.w.cpuThinking,
                  timers |-> r.w.timers, sockets |-> r.w.sockets,
                  readyBy |-> IF r.w.started THEN noOne ELSE r.w.readyBy]
    /\ last' = IF r.w.started \/ applied \/ event = "timer"
                     \/ (event \in {"game:place", "game:move"}
                            /\ r.error \in {"not_in_room", "not_seated"})
               THEN [event |-> event, user |-> userId, color |-> color,
                     ok |-> r.ok, error |-> r.error,
                     started |-> r.w.started, by |-> r.w.by, applied |-> applied]
               ELSE noEvent

RoomInit ==
    /\ scenario \in RoomScenarios
    /\ game = IF scenario = 1 THEN NullRef ELSE startState(scenario)
    /\ last = noEvent
    /\ plies = 0
    /\ server = IF scenario = 1 THEN initDb
                ELSE [initDb EXCEPT !.seats = [black |-> "u1", white |-> "u2"],
                                    !.status = "playing",
                                    !.sockets = [u \in Users |-> 1]]

RoomJoin ==
    /\ \E userId \in Users :
          \E r \in {roomJoin(stores, userId)} : handled("room:join", userId, Null, r, FALSE)
    /\ UNCHANGED <<plies, scenario>>

RoomLeave ==
    /\ \E userId \in Users :
          \E r \in {roomLeave(stores, userId)} : handled("room:leave", userId, Null, r, FALSE)
    /\ UNCHANGED <<plies, scenario>>

Disconnect ==
    /\ \E userId \in Users :
          \E r \in {roomLeave(stores, userId)} : handled("disconnect", userId, Null, r, FALSE)
    /\ UNCHANGED <<plies, scenario>>

SeatTake ==
    /\ \E userId \in Users, color \in Colors :
          \E r \in {seatTake(stores, userId, color)} : handled("seat:take", userId, color, r, FALSE)
    /\ UNCHANGED <<plies, scenario>>

SeatLeave ==
    /\ \E userId \in Users, color \in Colors :
          \E r \in {seatLeave(stores, userId, color)} : handled("seat:leave", userId, color, r, FALSE)
    /\ UNCHANGED <<plies, scenario>>

CpuConfigure ==
    /\ \E userId \in Users, enabled \in BOOLEAN, color \in RoomColors, levelRaw \in RoomLevels :
          \E r \in {cpuConfigure(stores, userId, enabled, color, levelRaw)} :
              handled("cpu:configure", userId, color, r, FALSE)
    /\ UNCHANGED <<plies, scenario>>

GameReady ==
    /\ \E userId \in Users, nextReady \in BOOLEAN :
          \E r \in {gameReady(stores, userId, nextReady)} :
              handled("game:ready", userId, Null, r, FALSE)
    /\ UNCHANGED <<plies, scenario>>

GamePlace ==
    /\ \E userId \in Users, t \in DOMAIN RoomCells :
          \E r \in {handleGameAction(stores, userId, "place", [from |-> NullRef, to |-> RoomCells[t]])} :
              /\ r.ok => plies < RoomPlies
              /\ handled("game:place", userId, Null, r, r.ok)
              /\ plies' = IF r.ok THEN plies + 1 ELSE plies
    /\ UNCHANGED scenario

GameMove ==
    /\ \E userId \in Users, f \in DOMAIN RoomCells :
        \E t \in DOMAIN RoomCells \ {f} :
          \E r \in {handleGameAction(stores, userId, "move", [from |-> RoomCells[f], to |-> RoomCells[t]])} :
              /\ r.ok => plies < RoomPlies
              /\ handled("game:move", userId, Null, r, r.ok)
              /\ plies' = IF r.ok THEN plies + 1 ELSE plies
    /\ UNCHANGED scenario

\* the i-th pending timer fires
CpuTimer ==
    /\ \E i \in DOMAIN server.timers, deadline \in 0 .. RoomNodes :
          \E config \in {server.timers[i]} :
              \E r \in {cpuTimer([stores EXCEPT !.timers =
                                     SubSeq(@, 1, i - 1) \o SubSeq(@, i + 1, Len(@))],
                                 config, deadline)} :
                  /\ r.applied => plies < RoomPlies
                  /\ handled("timer", cpuUserId, config.color,
                             [ok |-> r.applied, error |-> Null, w |-> r.w], r.applied)
                  /\ plies' = IF r.applied THEN plies + 1 ELSE plies
    /\ UNCHANGED scenario

RoomNext ==
    \/ RoomJoin
    \/ RoomLeave
    \/ Disconnect
    \/ SeatTake
    \/ SeatLeave
    \/ CpuConfigure
    \/ GameReady
    \/ GamePlace
    \/ GameMove
    \/ CpuTimer

RoomSpec == RoomInit /\ [][RoomNext]_vars

(***************************************************************************)
(* The rules in the words of the specification, for the properties below.  *)
(* None of these is used by the model of the code.                         *)
(***************************************************************************)
Cells == Rows \X Cols

OnBoard(row, col) == <<row, col>> \in Cells

Other(color) == CHOOSE c \in Colors : c # color

WhiteZone ==
    {<<0, 1>>, <<0, 3>>, <<1, 0>>, <<1, 2>>, <<1, 4>>, <<2, 1>>,
     <<2, 3>>, <<3, 0>>, <<3, 2>>, <<3, 4>>, <<4, 1>>, <<4, 3>>}

Zone(color) == IF color = "black" THEN BLACK_POSITIONS ELSE WhiteZone

Greater(a, b) == IF a >= b THEN a ELSE b

Distance(from, to) == Greater(Abs(to.row - from.row), Abs(to.col - from.col))

IsStep(from, to) == Distance(from, to) = 1

\* the k-th cell on the straight way from one coordinate to another
Along(from, to, k) ==
    <<from.row + k * Sign(to.row - from.row), from.col + k * Sign(to.col - from.col)>>

IsDiagonal(from, to) == Abs(to.row - from.row) = Abs(to.col - from.col)

InOwnZone(color, from, to) ==
    \A k \in 0 .. Distance(from, to) : Along(from, to, k) \in Zone(color)

WayIsFree(board, from, to) ==
    \A k \in 1 .. (Distance(from, to) - 1) :
        board[Along(from, to, k)[1]][Along(from, to, k)[2]] = Null

IsSlide(board, color, from, to) ==
    /\ IsDiagonal(from, to)
    /\ Distance(from, to) >= 2
    /\ InOwnZone(color, from, to)
    /\ WayIsFree(board, from, to)

Axes == {<<1, 0>>, <<0, 1>>, <<1, 1>>, <<1, -1>>}

Around == {d \in (-1 .. 1) \X (-1 .. 1) : d # <<0, 0>>}

\* n cells in a row of one color, starting at a cell and going along an axis
HasRun(board, color, n) ==
    \E cell \in Cells, d \in Axes :
        \A k \in 0 .. (n - 1) :
            /\ OnBoard(cell[1] + k * d[1], cell[2] + k * d[2])
            /\ board[cell[1] + k * d[1]][cell[2] + k * d[2]] = color

LongestRun(board, color) ==
    CHOOSE n \in 0 .. BOARD_SIZE :
        /\ n > 0 => HasRun(board, color, n)
        /\ ~HasRun(board, color, n + 1)

\* a run of exactly n that no further cell of the color extends at either end
HasClosedRun(board, color, n) ==
    \E cell \in Cells, d \in Axes :
        /\ \A k \in 0 .. (n - 1) :
              /\ OnBoard(cell[1] + k * d[1], cell[2] + k * d[2])
              /\ board[cell[1] + k * d[1]][cell[2] + k * d[2]] = color
        /\ \A k \in {-1, n} :
              OnBoard(cell[1] + k * d[1], cell[2] + k * d[2])
                 => board[cell[1] + k * d[1]][cell[2] + k * d[2]] # color

\* the cells sandwiched from a destination: in one of the 8 directions, the
\* contiguous run of the opponent's pieces that starts next to the
\* destination and is followed on the board by a piece of the mover
Sandwiched(board, color, to) ==
    {cell \in Cells :
        \E d \in Around, n \in 1 .. BOARD_SIZE :
            /\ \A k \in 1 .. n :
                  /\ OnBoard(to.row + k * d[1], to.col + k * d[2])
                  /\ board[to.row + k * d[1]][to.col + k * d[2]] = Other(color)
            /\ OnBoard(to.row + (n + 1) * d[1], to.col + (n + 1) * d[2])
            /\ board[to.row + (n + 1) * d[1]][to.col + (n + 1) * d[2]] = color
            /\ \E k \in 1 .. n : cell = <<to.row + k * d[1], to.col + k * d[2]>>}

Range(seq) == {seq[k] : k \in DOMAIN seq}

\* the last call was made and accepted; its mover, and the board it was made on
Called == last # noCall

Mover == game.lastMove.color

BoardBefore == last.before.board

ActionsHere == ActionList[scenario]

\* the move actions of the scenario that pass every check before the move
\* validator: made by the color to move with its own piece, from and to on
\* the board
IsOwnMove(a) ==
    /\ a.type = "move"
    /\ a.color = game.turn
    /\ a.from # NullRef /\ a.to # NullRef
    /\ OnBoard(a.from.row, a.from.col) /\ OnBoard(a.to.row, a.to.col)
    /\ game.board[a.from.row][a.from.col] = a.color

OwnMoves == {i \in DOMAIN ActionsHere : IsOwnMove(ActionsHere[i])}

(***************************************************************************)
(* C1.  applyAction never modifies its input state: for every reachable    *)
(* state and every action record, accepted or rejected, the input state    *)
(* object holds after the call what it held before (board, placed, turn,   *)
(* status, ready, winner, result, lastMove); a rejected call returns an    *)
(* error code and no state; an accepted call returns a state whose board   *)
(* array and rows are none of the input's.  The same holds of the call     *)
(* that led to the current state.                                          *)
(***************************************************************************)
C1_InputNeverModified ==
    /\ \A results \in {applyEach(game, ActionsHere)} :
          \A r \in Range(results) :
              /\ r.input = game
              /\ r.ok =>
                    /\ r.state # NullRef
                    /\ r.shared \cap boardParts = {}
              /\ ~r.ok =>
                    /\ r.state = NullRef
                    /\ r.error \in ErrorCodes
    /\ Called => /\ last.input = last.before
                 /\ last.ok => last.shared \cap boardParts = {}
                 /\ ~last.ok => game = last.before

\* an accepted move that flipped pieces has been applied to a state
C1_Witness ==
    /\ Called /\ last.ok
    /\ game.lastMove.type = "move"
    /\ game.lastMove.flipped # << >>
    /\ game.board # BoardBefore

(***************************************************************************)
(* C2.  In every reachable state placed.black <= 6 and placed.white <= 6;  *)
(* and when the game is playing and the color to move has placed 6, every  *)
(* 'place' action of that color with a target on the board is rejected     *)
(* with no_pieces_left, the count staying 6.                               *)
(***************************************************************************)
C2_PlacedAtMostSix ==
    /\ game.placed.black <= 6
    /\ game.placed.white <= 6
    /\ (game.status = "playing" /\ game.placed[game.turn] = 6) =>
          \A i \in DOMAIN ActionsHere :
              LET a == ActionsHere[i]
              IN  (/\ a.type = "place"
                   /\ a.color = game.turn
                   /\ a.to # NullRef
                   /\ OnBoard(a.to.row, a.to.col))
                  => /\ ~applyAction(game, a).ok
                     /\ applyAction(game, a).error = "no_pieces_left"
                     /\ applyAction(game, a).input.placed[game.turn] = 6

\* a seventh placement has been rejected
C2_Witness ==
    /\ Called /\ ~last.ok
    /\ last.error = "no_pieces_left"
    /\ game.placed[game.turn] = 6

(***************************************************************************)
(* C3.  When an accepted action leaves the mover's longest line at exactly *)
(* 4, the returned state is finished, the winner is the mover and the      *)
(* result is 'four'.                                                       *)
(***************************************************************************)
C3_FourWins ==
    (Called /\ last.ok /\ LongestRun(game.board, Mover) = 4)
    => /\ game.status = "finished"
       /\ game.winner = Mover
       /\ game.result = "four"

\* a move has made a line of four by flipping
C3_Witness ==
    /\ Called /\ last.ok
    /\ game.lastMove.type = "move"
    /\ game.lastMove.flipped # << >>
    /\ LongestRun(game.board, Mover) = 4
    /\ LongestRun(BoardBefore, Mover) < 4

(***************************************************************************)
(* C4.  When an accepted action leaves the mover with a line of 5 or more, *)
(* the returned state is finished, the winner is the mover's opponent and  *)
(* the result is 'five', also when the action made a separate line of      *)
(* exactly 4 for the mover.                                                *)
(***************************************************************************)
C4_FiveLoses ==
    (Called /\ last.ok /\ HasRun(game.board, Mover, 5))
    => /\ game.status = "finished"
       /\ game.winner = Other(Mover)
       /\ game.winner # Mover
       /\ game.result = "five"

\* an action has made a line of five and, beside it, a line of exactly four
C4_Witness ==
    /\ Called /\ last.ok
    /\ HasRun(game.board, Mover, 5)
    /\ HasClosedRun(game.board, Mover, 4)
    /\ ~HasRun(BoardBefore, Mover, 4)

(***************************************************************************)
(* C5.  In a playing state, a move of the color to move, with from and to  *)
(* on the board, the mover's own piece on from and an empty to, is         *)
(* accepted if and only if it is a step (distance exactly 1) or a diagonal *)
(* slide (equal row and column deltas of size >= 2; origin, intermediate   *)
(* cells and destination in the mover's zone; intermediate cells empty),   *)
(* judged on the board before the move.                                    *)
(***************************************************************************)
C5_StepOrSlide ==
    game.status = "playing" =>
        \A i \in OwnMoves :
            LET a == ActionsHere[i]
            IN  game.board[a.to.row][a.to.col] = Null
                => (applyAction(game, a).ok
                      <=> (IsStep(a.from, a.to)
                             \/ IsSlide(game.board, a.color, a.from, a.to)))

\* a slide over three cells has been accepted
C5_Witness ==
    /\ Called /\ last.ok
    /\ game.lastMove.type = "move"
    /\ Distance(game.lastMove.from, game.lastMove.to) = 3
    /\ IsSlide(BoardBefore, Mover, game.lastMove.from, game.lastMove.to)

(***************************************************************************)
(* C6, as amended.  In a playing state, a move of the color to move with   *)
(* its own piece, from and to on the board, to an EMPTY cell that is       *)
(* neither adjacent nor reachable by a valid diagonal slide (among them a  *)
(* diagonal slide through a cell outside the mover's zone or through an    *)
(* occupied intermediate cell) is rejected with invalid_move.              *)
(***************************************************************************)
C6_InvalidMoveToEmptyCell ==
    game.status = "playing" =>
        \A i \in OwnMoves :
            LET a == ActionsHere[i]
            IN  (/\ game.board[a.to.row][a.to.col] = Null
                 /\ ~IsStep(a.from, a.to)
                 /\ ~IsSlide(game.board, a.color, a.from, a.to))
                => /\ ~applyAction(game, a).ok
                   /\ applyAction(game, a).error = "invalid_move"

\* C6 as stated: whatever stands on the destination, such a move fails with
\* invalid_move
C6_AlwaysInvalidMove ==
    game.status = "playing" =>
        \A i \in OwnMoves :
            LET a == ActionsHere[i]
            IN  (/\ a.from # a.to
                 /\ ~IsStep(a.from, a.to)
                 /\ ~IsSlide(game.board, a.color, a.from, a.to))
                => /\ ~applyAction(game, a).ok
                   /\ applyAction(game, a).error = "invalid_move"

\* a move has been rejected with invalid_move where a diagonal of the
\* mover's zone, from its own piece to an empty cell, is blocked by a piece
C6_Witness ==
    /\ Called /\ ~last.ok
    /\ last.error = "invalid_move"
    /\ \E i \in OwnMoves :
          LET a == ActionsHere[i]
          IN  /\ game.board[a.to.row][a.to.col] = Null
              /\ IsDiagonal(a.from, a.to)
              /\ Distance(a.from, a.to) >= 2
              /\ InOwnZone(a.color, a.from, a.to)
              /\ ~WayIsFree(game.board, a.from, a.to)

(***************************************************************************)
(* C7.  After an accepted move to a destination, a cell has changed from   *)
(* the opponent's color to the mover's color if and only if it is          *)
(* sandwiched from the destination (in one of the 8 directions, in the     *)
(* contiguous run of opponent pieces next to the destination that is       *)
(* followed on the board by a piece of the mover); apart from the vacated  *)
(* source, the destination and these cells the board is unchanged; and     *)
(* lastMove.flipped lists exactly these cells, each once.                  *)
(***************************************************************************)
Relocated ==
    [BoardBefore EXCEPT ![game.lastMove.from.row][game.lastMove.from.col] = Null,
                        ![game.lastMove.to.row][game.lastMove.to.col] = Mover]

C7_FlipsExactlySandwiched ==
    (Called /\ last.ok /\ game.lastMove.type = "move")
    => LET flips == Sandwiched(Relocated, Mover, game.lastMove.to)
       IN  /\ {c \in Cells : /\ BoardBefore[c[1]][c[2]] = Other(Mover)
                             /\ game.board[c[1]][c[2]] = Mover} = flips
           /\ \A c \in Cells \ flips : game.board[c[1]][c[2]] = Relocated[c[1]][c[2]]
           /\ Range(game.lastMove.flipped) = flips
           /\ Len(game.lastMove.flipped) = Cardinality(flips)

\* a move has flipped pieces in two directions or more, and left alone an
\* opponent piece next to the destination that nothing closes in
C7_Witness ==
    /\ Called /\ last.ok
    /\ game.lastMove.type = "move"
    /\ \E c, d \in Range(game.lastMove.flipped) :
          /\ c[1] = game.lastMove.to.row /\ c[2] # game.lastMove.to.col
          /\ d[1] # game.lastMove.to.row
    /\ \E d \in Around :
          /\ OnBoard(game.lastMove.to.row + d[1], game.lastMove.to.col + d[2])
          /\ game.board[game.lastMove.to.row + d[1]][game.lastMove.to.col + d[2]]
                = Other(Mover)

(***************************************************************************)
(* C8.  An accepted 'place' action changes exactly one board cell, the     *)
(* target, from empty to the mover's color, and flips nothing, also when   *)
(* the placed piece sandwiches opponent pieces; lastMove.flipped is empty. *)
(***************************************************************************)
C8_PlaceFlipsNothing ==
    (Called /\ last.ok /\ game.lastMove.type = "place")
    => /\ BoardBefore[game.lastMove.to.row][game.lastMove.to.col] = Null
       /\ game.board =
             [BoardBefore EXCEPT ![game.lastMove.to.row][game.lastMove.to.col] = Mover]
       /\ game.lastMove.flipped = << >>
       /\ game.lastMove.from = NullRef

\* a piece has been placed that sandwiches opponent pieces
C8_Witness ==
    /\ Called /\ last.ok
    /\ game.lastMove.type = "place"
    /\ Sandwiched(game.board, Mover, game.lastMove.to) # {}

(***************************************************************************)
(* C9.  Over a sequence of applyAction calls the turn changes if and only  *)
(* if the call is accepted and does not finish the game, and then to the   *)
(* mover's opponent: the mover of an accepted action is the color whose    *)
(* turn it was, a rejected action leaves the turn, and a finishing action  *)
(* leaves the turn at the mover.                                           *)
(***************************************************************************)
C9_TurnAlternates ==
    Called =>
        /\ (game.turn # last.before.turn) <=> (last.ok /\ game.status # "finished")
        /\ last.ok => /\ Mover = last.before.turn
                      /\ game.status # "finished" => game.turn = Other(Mover)
                      /\ game.status = "finished" => game.turn = Mover

\* a new game after black's and white's first actions: the turn is black's
\* again
C9_Witness ==
    /\ Called /\ last.ok
    /\ plies = 2
    /\ game.placed = [black |-> 1, white |-> 1]
    /\ Mover = "white"
    /\ game.status = "playing"
    /\ game.turn = "black"

(***************************************************************************)
(* C10.  On a finished state, and on a waiting state, every applyAction    *)
(* (any type, color, coordinates) is rejected with game_not_active and     *)
(* leaves the state as it is, so that board, winner, result and turn never *)
(* change again through applyAction.                                       *)
(***************************************************************************)
C10_FinishedIsAbsorbing ==
    /\ game.status \in {"finished", "waiting"} =>
          \A results \in {applyEach(game, ActionsHere)} :
              \A r \in Range(results) :
                  /\ ~r.ok
                  /\ r.error = "game_not_active"
                  /\ r.input = game
    /\ (Called /\ last.before.status \in {"finished", "waiting"}) =>
          /\ ~last.ok
          /\ last.error = "game_not_active"
          /\ game = last.before

\* an action has been rejected on a game that a line of four had finished
C10_Witness ==
    /\ Called /\ ~last.ok
    /\ last.error = "game_not_active"
    /\ game.status = "finished"
    /\ game.result = "four"
    /\ game = last.before

(***************************************************************************)
(* C11.  In every state reachable from createWaitingState() or             *)
(* createNewGameState() by applyAction, status is one of waiting, playing, *)
(* finished; winner and result are both null unless status is finished;    *)
(* and when status is finished, winner is black or white and result is     *)
(* 'four' or 'five'.                                                       *)
(***************************************************************************)
C11_StatusWinnerResult ==
    /\ game.status \in {"waiting", "playing", "finished"}
    /\ game.status # "finished" => (game.winner = Null /\ game.result = Null)
    /\ game.status = "finished" => /\ game.winner \in Colors
                                   /\ game.result \in {"four", "five"}

\* an action has just finished a game with a line of five, won by the
\* opponent of the mover
C11_Witness ==
    /\ Called /\ last.ok
    /\ last.before.status = "playing"
    /\ game.status = "finished"
    /\ game.result = "five"
    /\ game.winner = Other(Mover)

(***************************************************************************)
(* C12, as amended.  In every state reachable from createNewGameState() by *)
(* applyAction, the number of pieces on the board, black and white         *)
(* together, is placed.black + placed.white: a piece comes onto the board  *)
(* by a placement only.  (A flip changes the color of a piece, so the      *)
(* cells of one color may outnumber the pieces that color has placed.)     *)
(***************************************************************************)
CellsOf(board, color) == {cell \in Cells : board[cell[1]][cell[2]] = color}

C12_PiecesOnBoardArePlaced ==
    Scenarios[scenario].start = createNewGameState =>
        Cardinality(CellsOf(game.board, "black")) + Cardinality(CellsOf(game.board, "white"))
            = game.placed.black + game.placed.white

\* C12 as stated: the cells of each color are at most the pieces that color
\* has placed
C12_CellsAtMostPlaced ==
    Scenarios[scenario].start = createNewGameState =>
        /\ Cardinality(CellsOf(game.board, "black")) <= game.placed.black
        /\ Cardinality(CellsOf(game.board, "white")) <= game.placed.white

\* a move has flipped pieces, and the mover now has more cells than it has
\* placed pieces
C12_Witness ==
    /\ Called /\ last.ok
    /\ game.lastMove.type = "move"
    /\ game.lastMove.flipped # << >>
    /\ Cardinality(CellsOf(game.board, Mover)) > game.placed[Mover]

(***************************************************************************)
(* C13.  applyAction checks in a fixed order.  When the status is not      *)
(* playing the error is game_not_active, whatever the color, type and      *)
(* coordinates of the action; otherwise, when action.color is not the      *)
(* turn, the error is not_your_turn, whatever the type and coordinates;    *)
(* only for an action of the color to move do type and coordinates count:  *)
(* an unknown type gives invalid_action, and a place or move gives none of *)
(* these three errors.                                                     *)
(***************************************************************************)
C13_CheckOrder ==
    \A results \in {applyEach(game, ActionsHere)} :
        \A i \in DOMAIN results :
            \A r \in {results[i]}, a \in {ActionsHere[i]} :
                /\ game.status # "playing"
                      => (~r.ok /\ r.error = "game_not_active")
                /\ (game.status = "playing" /\ a.color # game.turn)
                      => (~r.ok /\ r.error = "not_your_turn")
                /\ (game.status = "playing" /\ a.color = game.turn
                                            /\ a.type \notin {"place", "move"})
                      => (~r.ok /\ r.error = "invalid_action")
                /\ (game.status = "playing" /\ a.color = game.turn
                                            /\ a.type \in {"place", "move"})
                      => r.error \notin {"game_not_active", "not_your_turn",
                                         "invalid_action"}

\* on a playing state an action has been rejected with not_your_turn, and
\* among the actions so rejected are one of unknown type and one with a
\* coordinate off the board
C13_Witness ==
    /\ Called /\ ~last.ok
    /\ last.error = "not_your_turn"
    /\ game.status = "playing"
    /\ \E i, j \in DOMAIN ActionsHere :
          /\ ActionsHere[i].color # game.turn
          /\ ActionsHere[i].type = "pass"
          /\ ActionsHere[j].color # game.turn
          /\ ActionsHere[j].type = "move"
          /\ ActionsHere[j].to # NullRef
          /\ ~OnBoard(ActionsHere[j].to.row, ActionsHere[j].to.col)
          /\ applyAction(game, ActionsHere[i]).error = "not_your_turn"
          /\ applyAction(game, ActionsHere[j]).error = "not_your_turn"

(***************************************************************************)
(* C14.  On a playing state, an action whose color is neither black nor    *)
(* white is rejected with invalid_color.                                   *)
(*                                                                         *)
(* The code does not behave so: normalizeState makes turn black or white   *)
(* (line 160), so such a color differs from the turn and the call returns  *)
(* not_your_turn at line 404; the check at line 408 is never reached.      *)
(***************************************************************************)
C14_InvalidColorRejected ==
    game.status = "playing" =>
        \A i \in DOMAIN ActionsHere :
            ActionsHere[i].color \notin Colors
                => \A r \in {applyAction(game, ActionsHere[i])} :
                      ~r.ok /\ r.error = "invalid_color"

(***************************************************************************)
(* C15.  For a 'place' action by the color to move on a playing state the  *)
(* checks run in the order invalid_target (target missing or off the       *)
(* board), no_pieces_left (6 pieces placed already), occupied (target not  *)
(* empty), and the first that fails gives the error: placing on an         *)
(* occupied cell with no pieces left gives no_pieces_left.  When all pass  *)
(* the action is accepted, the target holds the mover's color, the mover's *)
(* placed count has grown by exactly 1 and the opponent's is unchanged.    *)
(***************************************************************************)
IsOwnPlace(a) == a.type = "place" /\ a.color = game.turn

C15_PlaceCheckOrder ==
    game.status = "playing" =>
        \A i \in {j \in DOMAIN ActionsHere : IsOwnPlace(ActionsHere[j])} :
            \A a \in {ActionsHere[i]} : \A r \in {applyAction(game, a)} :
                IF a.to = NullRef \/ ~OnBoard(a.to.row, a.to.col)
                THEN ~r.ok /\ r.error = "invalid_target"
                ELSE IF game.placed[a.color] >= 6
                THEN ~r.ok /\ r.error = "no_pieces_left"
                ELSE IF game.board[a.to.row][a.to.col] # Null
                THEN ~r.ok /\ r.error = "occupied"
                ELSE /\ r.ok
                     /\ r.state.board[a.to.row][a.to.col] = a.color
                     /\ r.state.placed[a.color] = game.placed[a.color] + 1
                     /\ r.state.placed[Other(a.color)] = game.placed[Other(a.color)]

\* a placement has been rejected with no_pieces_left in a state where the
\* color to move has placed 6 and a placement on an occupied cell is among
\* those rejected so
C15_Witness ==
    /\ Called /\ ~last.ok
    /\ last.error = "no_pieces_left"
    /\ game.status = "playing"
    /\ \E i \in DOMAIN ActionsHere :
          /\ IsOwnPlace(ActionsHere[i])
          /\ ActionsHere[i].to # NullRef
          /\ OnBoard(ActionsHere[i].to.row, ActionsHere[i].to.col)
          /\ game.board[ActionsHere[i].to.row][ActionsHere[i].to.col] # Null
          /\ applyAction(game, ActionsHere[i]).error = "no_pieces_left"

(***************************************************************************)
(* C16.  For a 'move' action by the color to move on a playing state the   *)
(* checks run in the order invalid_target (from or to missing or off the   *)
(* board), not_your_piece (the source cell does not hold the mover's       *)
(* color), occupied (the destination is not empty, as when from = to),     *)
(* invalid_move (neither a step nor a slide), and the first that fails     *)
(* gives the error.  An accepted move leaves both placed counts unchanged. *)
(***************************************************************************)
IsMoveOfTurn(a) == a.type = "move" /\ a.color = game.turn

C16_MoveCheckOrder ==
    game.status = "playing" =>
        \A i \in {j \in DOMAIN ActionsHere : IsMoveOfTurn(ActionsHere[j])} :
            \A a \in {ActionsHere[i]} : \A r \in {applyAction(game, a)} :
                IF \/ a.from = NullRef \/ a.to = NullRef
                   \/ ~OnBoard(a.from.row, a.from.col) \/ ~OnBoard(a.to.row, a.to.col)
                THEN ~r.ok /\ r.error = "invalid_target"
                ELSE IF game.board[a.from.row][a.from.col] # a.color
                THEN ~r.ok /\ r.error = "not_your_piece"
                ELSE IF game.board[a.to.row][a.to.col] # Null
                THEN ~r.ok /\ r.error = "occupied"
                ELSE IF ~IsStep(a.from, a.to) /\ ~IsSlide(game.board, a.color, a.from, a.to)
                THEN ~r.ok /\ r.error = "invalid_move"
                ELSE r.ok /\ r.state.placed = game.placed

\* a move has been rejected with occupied in a state where the moves so
\* rejected include one of an own piece onto its own cell and where a move
\* from an empty cell onto a piece is rejected with not_your_piece
C16_Witness ==
    /\ Called /\ ~last.ok
    /\ last.error = "occupied"
    /\ game.status = "playing"
    /\ \E i, j \in DOMAIN ActionsHere :
          \E a \in {ActionsHere[i]}, b \in {ActionsHere[j]} :
              /\ IsOwnMove(a) /\ a.from = a.to
              /\ applyAction(game, a).error = "occupied"
              /\ IsMoveOfTurn(b) /\ b.from # NullRef /\ b.to # NullRef
              /\ OnBoard(b.from.row, b.from.col) /\ OnBoard(b.to.row, b.to.col)
              /\ game.board[b.from.row][b.from.col] = Null
              /\ game.board[b.to.row][b.to.col] # Null
              /\ applyAction(game, b).error = "not_your_piece"

(***************************************************************************)
(* C17.  applyAction is total: for every stored state, sound or malformed, *)
(* and every action record (type place, move or another; any color; from   *)
(* and to present or missing, with integer coordinates on or off the       *)
(* board) it returns either ok with a state, or not ok with no state and   *)
(* an error that is one of game_not_active, not_your_turn, invalid_color,  *)
(* invalid_target, no_pieces_left, occupied, not_your_piece, invalid_move, *)
(* invalid_action.                                                         *)
(***************************************************************************)
WasApplied == Called /\ "ok" \in DOMAIN last

C17_ApplyActionTotal ==
    \A results \in {applyEach(game, ActionsHere)} :
        \A i \in DOMAIN results :
            \A r \in {results[i]} :
                /\ r.ok \in BOOLEAN
                /\ r.ok => /\ r.error = Null
                           /\ r.state # NullRef
                           /\ r.state.status \in {"playing", "finished"}
                /\ ~r.ok => /\ r.state = NullRef
                            /\ r.error \in ErrorCodes

\* an action has been accepted on a stored state whose board has a row that
\* is no array, and another one is rejected there for its target
C17_Witness ==
    /\ WasApplied /\ last.ok
    /\ last.before.board # NullRef
    /\ last.before.board[1] = NullRef
    /\ \E i \in DOMAIN ActionsHere :
          applyAction(last.before, ActionsHere[i]).error = "invalid_target"

(***************************************************************************)
(* C18.  For every input, normalizeState returns a structurally valid      *)
(* state: a 5x5 board with cells empty, black or white, placed counts in   *)
(* 0..6, turn black or white, status waiting, playing or finished, boolean *)
(* ready flags, and winner and result null unless status is finished.      *)
(*                                                                         *)
(* The code does not behave so: it repairs the board, the turn and the     *)
(* ready flags, but passes on every truthy status, winner and result and   *)
(* every finite placed count as it finds them (lines 157-167).             *)
(***************************************************************************)
IsValidState(state) ==
    /\ DOMAIN state.board = Rows
    /\ \A row \in Rows :
          /\ DOMAIN state.board[row] = Cols
          /\ \A col \in Cols : state.board[row][col] \in Colors \cup {Null}
    /\ state.placed.black \in 0 .. MAX_PIECES
    /\ state.placed.white \in 0 .. MAX_PIECES
    /\ state.turn \in Colors
    /\ state.status \in {"waiting", "playing", "finished"}
    /\ state.ready.black \in BOOLEAN
    /\ state.ready.white \in BOOLEAN
    /\ state.status # "finished" => (state.winner = Null /\ state.result = Null)

C18_NormalizeStateValid == IsValidState(normalizeState(game))

\* ---- C19 ----
\* the coordinates on the board and one step off it on every side
Wide == (-1..BOARD_SIZE) \X (-1..BOARD_SIZE)

\* every place and move action of a color over these coordinates
AllActions(color) ==
    {place(color, to[1], to[2]) : to \in Wide}
        \cup {move(color, from[1], from[2], to[1], to[2]) : from \in Wide, to \in Wide}

\* listActions has been called for the color to move of a game in play
ListedForTurn ==
    /\ "call" \in DOMAIN last
    /\ last.call = "listActions"
    /\ game.status = "playing"
    /\ last.color = game.turn

\* C19: for a game in play and the color whose turn it is, the list that
\* listActions returns holds no action twice, and the actions it holds are
\* exactly the place and move actions of that color that applyAction accepts
\* on the state: the placements onto empty cells while pieces are left,
\* the steps of own pieces to empty adjacent cells and the diagonal slides
\* of two cells or more.
C19_ListActionsExact ==
    ListedForTurn =>
        /\ \A i, j \in DOMAIN last.actions :
              last.actions[i] = last.actions[j] => i = j
        /\ Range(last.actions)
              = {a \in AllActions(last.color) : applyAction(game, a).ok}

\* a list with a placement, a step and a slide of two cells or more
C19_Witness ==
    /\ ListedForTurn
    /\ \E a \in Range(last.actions) : a.type = "place"
    /\ \E a \in Range(last.actions) :
          a.type = "move" /\ Abs(a.to.row - a.from.row) = 1
    /\ \E a \in Range(last.actions) :
          a.type = "move" /\ Abs(a.to.row - a.from.row) >= 2

\* ---- C20 ----
\* searchBestMove has been called on the position
Searched == "call" \in DOMAIN last /\ last.call = "searchBestMove"

\* C20: on every state, waiting, in play or finished, and for either color,
\* whether it is that color's turn or not, searchBestMove returns null or an
\* action of the searching color that applyAction accepts on the state.
C20_SearchReturnsLegalAction ==
    Searched =>
        \/ last.best = NullRef
        \/ /\ last.best.color = last.color
           /\ applyAction(game, last.best).ok

\* ---- C21 ----
\* searchBestMove has been called with maxDepth 1 and the depth was searched
\* before the deadline
SearchedOnePly ==
    /\ Searched
    /\ last.options.maxDepth = 1
    /\ Len(last.depths) = 1
    /\ ~last.depths[1].timedOut

\* evaluateState for the color of the state each accepted action of the
\* color leads to
scoresAfter(color) ==
    {evaluateState(r.state, color) :
        r \in {r \in {applyAction(game, a) : a \in AllActions(color)} : r.ok}}

\* C21: with maxDepth 1 and no timeout, searchBestMove returns an action
\* that applyAction accepts and whose resulting state evaluateState scores,
\* for the searching color, at least as high as the resulting state of every
\* other action of that color that applyAction accepts.
C21_OnePlyIsGreedy ==
    SearchedOnePly =>
        \A scores \in {scoresAfter(last.color)} :
            scores # {} =>
                \E best \in {applyAction(game, last.best)} :
                    /\ best.ok
                    /\ \E score \in {evaluateState(best.state, last.color)} :
                          \A other \in scores : score >= other

\* the search of one ply returned an action that is not the first of the
\* list, and accepted actions lead to states of different scores
C21_Witness ==
    /\ SearchedOnePly
    /\ game.status = "playing"
    /\ last.color = game.turn
    /\ last.best # listActions(game, last.color)[1]
    /\ Cardinality(scoresAfter(last.color)) > 1

\* ---- C22 ----
\* the turns of the loop of the depths that were searched before the deadline
Completed == {i \in DOMAIN last.depths : ~last.depths[i].timedOut}

\* C22: searchBestMove searches the depths 1, 2, ... up to maxDepth in
\* increasing order; a depth that timed out is the last one started; and
\* where a depth was searched before the deadline, the action returned is
\* the best action of the deepest such depth, whether or not a deeper depth
\* was started and timed out.
C22_DeepestCompletedDepthWins ==
    Searched =>
        /\ Len(last.depths) <= last.options.maxDepth
        /\ \A i \in DOMAIN last.depths :
              /\ last.depths[i].depth = i
              /\ last.depths[i].timedOut => i = Len(last.depths)
        /\ Len(last.depths) < last.options.maxDepth =>
              /\ last.depths # << >>
              /\ last.depths[Len(last.depths)].timedOut
        /\ Completed # {} =>
              \E deepest \in Completed :
                  /\ \A i \in Completed : i <= deepest
                  /\ last.best = last.depths[deepest].bestAction

\* depth 1 was searched before the deadline, depth 2 timed out, and the
\* search returned the best action of depth 1
C22_Witness ==
    /\ Searched
    /\ Len(last.depths) = 2
    /\ ~last.depths[1].timedOut
    /\ last.depths[2].timedOut
    /\ last.depths[2].now > last.depths[1].now + 1
    /\ last.best = last.depths[1].bestAction

\* ---- C23 ----
\* C23: where the deadline passes before depth 1 has been searched,
\* searchBestMove returns the first action of listActions(state, color), and
\* it returns null only where that list is empty.
C23_FallbackIsFirstListed ==
    Searched =>
        \A list \in {listActions(game, last.color)} :
            /\ Completed = {} =>
                  last.best = IF Len(list) > 0 THEN list[1] ELSE NullRef
            /\ last.best = NullRef => Len(list) = 0

\* the deadline passed at the first child of the root of a game in play,
\* and the search returned the first of several listed actions
C23_Witness ==
    /\ Searched
    /\ game.status = "playing"
    /\ last.color = game.turn
    /\ Len(last.depths) = 1
    /\ last.depths[1].timedOut
    /\ last.depths[1].now = 2
    /\ Len(listActions(game, last.color)) > 1
    /\ last.best = listActions(game, last.color)[1]

\* ---- C24 ----
\* C24: searchBestMove leaves the state it was given as it was: when the
\* call returns, the caller's state object holds the board, placed, turn,
\* status, winner and result it held before, at every depth and whether or
\* not the deadline passed; and no state the search made with applyAction
\* has a board or a row that is an object of the state it was made from, so
\* no two explored states share a board.
C24_SearchLeavesStateAlone ==
    Searched =>
        /\ last.input = game
        /\ last.shared \cap boardParts = {}

\* a search for the color to move that went on to depth 2 and applied
\* actions to the root and to a child of the root
C24_Witness ==
    /\ Searched
    /\ game.status = "playing"
    /\ last.color = game.turn
    /\ Len(last.depths) = 2
    /\ last.depths[2].now >= last.depths[1].now + 3
    /\ last.input = game

\* ---- C26 ----
\* the last turn of the loop of the depths timed out
TimedOut ==
    /\ Searched
    /\ last.depths # << >>
    /\ last.depths[Len(last.depths)].timedOut

\* C26: where a node's reading of the clock finds the deadline passed, no
\* further node is entered: that reading is the last one of the search; the
\* timeout goes from that node through its ancestors up to the root of the
\* depth; and the table has an entry neither for that node nor for any of
\* these ancestors.
C26_TimeoutLeavesNoEntry ==
    TimedOut =>
        \A depth \in {last.depths[Len(last.depths)]} :
            /\ depth.now = last.deadline + 1
            /\ depth.open # << >>
            /\ depth.open[Len(depth.open)] = cacheKey(game, depth.depth)
            /\ \A i \in DOMAIN depth.open :
                  /\ depth.open[i][2] = depth.depth - (Len(depth.open) - i)
                  /\ tableGet(depth.table, depth.open[i]) = NullRef

\* depth 2 timed out at a leaf below a child of the root, after another
\* child of the root had been searched and stored
C26_Witness ==
    /\ TimedOut
    /\ Len(last.depths) = 2
    /\ Len(last.depths[2].open) = 3
    /\ Len(last.depths[2].table) > Len(last.depths[1].table)

\* ---- C27 ----
\* the position and the states the accepted actions of the color to move
\* lead to
HereAndNext ==
    {game} \cup {r.state : r \in {r \in {applyAction(game, a) :
                                             a \in Range(listActions(game, game.turn))} :
                                     r.ok}}

\* C27: evaluateState gives 100000 for a finished state the color has won
\* and -100000 for a finished state the other color has won, and for a state
\* in play it gives a score strictly between -100000 and 100000.
C27_EvaluateStateRange ==
    fresh =>
        \A state \in HereAndNext : \A color \in Colors :
            \A score \in {evaluateState(state, color)} :
                /\ state.status = "finished" /\ state.winner = color
                      => score = 100000
                /\ state.status = "finished" /\ state.winner = Other(color)
                      => score = -100000
                /\ state.status = "playing"
                      => -100000 < score /\ score < 100000

\* a position in play from which an action wins, scored 100000 for the
\* winner and -100000 for the loser, and another action leads to a state in
\* play that evaluateState scores above 0 for one color and below 0 for the
\* other
C27_Witness ==
    /\ fresh
    /\ game.status = "playing"
    /\ \E state \in HereAndNext :
          /\ state.status = "finished"
          /\ state.winner = game.turn
          /\ evaluateState(state, game.turn) = 100000
          /\ evaluateState(state, Other(game.turn)) = -100000
    /\ \E state \in HereAndNext :
          /\ state.status = "playing"
          /\ evaluateState(state, game.turn) > 0
          /\ evaluateState(state, Other(game.turn)) < 0

\* ---- C28 ----
\* C28: in a game in play neither color has four or more of its pieces in a
\* row, and no accepted action leaves the color that did not move with four
\* or more in a row, whether or not the action ended the game.
C28_NoLineOfFourInPlay ==
    /\ game.status = "playing" =>
          \A color \in Colors : ~HasRun(game.board, color, 4)
    /\ Called /\ last.ok => ~HasRun(game.board, Other(Mover), 4)

\* an accepted action has left the game in play with three in a row for
\* the mover and three in a row for the other color
C28_Witness ==
    /\ Called
    /\ last.ok
    /\ game.status = "playing"
    /\ LongestRun(game.board, Mover) = 3
    /\ LongestRun(game.board, Other(Mover)) = 3

\* ---- C29 ----
\* the cells of a board that hold a piece
NonEmpty(board) == {cell \in Cells : board[cell[1]][cell[2]] # Null}

\* C29: in every state reachable from createNewGameState() by applyAction
\* the cells that hold a piece are as many as placed.black + placed.white.
\* An accepted placement fills one cell that was empty and adds one to the
\* mover's placed count; an accepted move, with its flips, empties the cell
\* it leaves, fills the cell it goes to and changes no placed count; and no
\* other cell becomes empty or filled.
C29_PiecesAreThePlacedOnes ==
    Scenarios[scenario].start = createNewGameState =>
        /\ Cardinality(NonEmpty(game.board)) = game.placed.black + game.placed.white
        /\ Called /\ last.ok =>
              \A to \in {<<game.lastMove.to.row, game.lastMove.to.col>>} :
                  IF game.lastMove.type = "place"
                  THEN /\ NonEmpty(game.board) = NonEmpty(BoardBefore) \cup {to}
                       /\ to \notin NonEmpty(BoardBefore)
                       /\ game.placed
                             = [last.before.placed EXCEPT ![Mover] = @ + 1]
                  ELSE \A from \in {<<game.lastMove.from.row, game.lastMove.from.col>>} :
                       /\ NonEmpty(game.board)
                             = (NonEmpty(BoardBefore) \ {from}) \cup {to}
                       /\ from \in NonEmpty(BoardBefore)
                       /\ to \notin NonEmpty(BoardBefore)
                       /\ game.placed = last.before.placed

\* a move has flipped pieces and the board holds as many pieces as before,
\* after a placement in the same run
C29_Witness ==
    /\ Scenarios[scenario].start = createNewGameState
    /\ Called /\ last.ok
    /\ game.lastMove.type = "move"
    /\ game.lastMove.flipped # << >>
    /\ Cardinality(NonEmpty(game.board)) = Cardinality(NonEmpty(BoardBefore))
    /\ Cardinality(NonEmpty(game.board)) > Cardinality(NonEmpty(startState(scenario).board))

\* ---- C30 ----
\* C30: in every game in play the color to move has an action: the list
\* listActions gives for it is not empty.
C30_MoverHasAction ==
    game.status = "playing" => listActions(game, game.turn) # << >>

(***************************************************************************)
(* C25  For every state and every completed depth d, the score the search  *)
(* gives the root with alpha-beta pruning and the transposition table is   *)
(* the minimax value of depth d; a score that was stored after a cut-off   *)
(* and is read again at a later visit never changes the value found at the *)
(* root.                                                                   *)
(*                                                                         *)
(* alphaBeta is the search of lines 337-409 without its table and without  *)
(* its clock: the same loop over the same actions with the same window,    *)
(* every node searched anew.  Pruning alone leaves the value of a root     *)
(* searched with the full window at the minimax value (minimax below is    *)
(* the loop without the window; AlphaBetaIsMinimax compares the two), so   *)
(* the score of a completed depth differs from alphaBeta's only through a  *)
(* score read from the table.                                              *)
(***************************************************************************)
RECURSIVE alphaBeta(_, _, _, _, _)
RECURSIVE alphaBetaActions(_, _, _, _, _, _, _)

\* one turn of the loop; the window is kept when prune holds and stays the
\* full one otherwise
alphaBetaAction(current, color, depth, action, prune, loop) ==
    IF loop.stop # "" THEN loop
    ELSE
    CHOOSE next \in
        {IF ~result.ok THEN loop
         ELSE CHOOSE after \in
                  {IF prune THEN turn
                   ELSE [turn EXCEPT !.alpha = -Infinity, !.beta = Infinity,
                                     !.stop = ""] :
                      turn \in {tryChild(current, color, action, loop,
                                         [score |-> score, timedOut |-> FALSE,
                                          table |-> << >>, now |-> 0]) :
                                   score \in {alphaBeta(result.state, color, depth - 1,
                                                        prune, loop)}}} :
                  TRUE :
            result \in {applyAction(current, action)}} :
        TRUE

alphaBetaActions(current, color, depth, actions, lo, hi, loop) ==
    IF lo = hi
    THEN alphaBetaAction(current, color, depth, actions[lo], loop.prune, loop)
    ELSE CHOOSE r \in {alphaBetaActions(current, color, depth, actions,
                                           (lo + hi) \div 2 + 1, hi, half) :
                          half \in {alphaBetaActions(current, color, depth, actions,
                                                     lo, (lo + hi) \div 2, loop)}} : TRUE

\* the value of the node for color; window holds alpha and beta
alphaBeta(current, color, depth, prune, window) ==
    IF depth = 0 \/ current.status = "finished"
    THEN evaluateState(current, color)
    ELSE CHOOSE v \in
             {IF Len(actions) = 0 THEN evaluateState(current, color)
              ELSE alphaBetaActions(current, color, depth, actions, 1, Len(actions),
                                    [alpha |-> window.alpha, beta |-> window.beta,
                                     bestScore |-> IF current.turn = color
                                                   THEN -Infinity ELSE Infinity,
                                     bestAction |-> NullRef, table |-> << >>,
                                     now |-> 0, stop |-> "",
                                     prune |-> prune]).bestScore :
                 actions \in {listActions(current, current.turn)}} :
             TRUE

fullWindow == [alpha |-> -Infinity, beta |-> Infinity]

\* the root's value at the depth, found without the table
rootValue(state, color, depth) == alphaBeta(state, color, depth, TRUE, fullWindow)

\* the root's value at the depth by plain minimax
minimax(state, color, depth) == alphaBeta(state, color, depth, FALSE, fullWindow)

\* up to three plies, where plain minimax is small enough to be computed,
\* pruning does not change the root's value
AlphaBetaIsMinimax ==
    \A depth \in 1 .. 3 :
        rootValue(game, game.turn, depth) = minimax(game, game.turn, depth)

C25_TableKeepsRootScore ==
    Searched =>
        \A i \in Completed :
            last.depths[i].score = rootValue(game, last.color, last.depths[i].depth)

(***************************************************************************)
(* C31  No accepted move of distance 2 or more starts from, passes through *)
(* or ends on a neutral cell (the four corners and the center): a piece on *)
(* a neutral cell or on a cell of the other color's zone only steps, and a *)
(* move onto a neutral cell is a step of distance 1.  Every accepted move  *)
(* of black has distance at most 2, every accepted move of white distance  *)
(* at most 3.                                                              *)
(***************************************************************************)
Moved == Called /\ last.ok /\ game.lastMove.type = "move"

MovedDistance == Distance(game.lastMove.from, game.lastMove.to)

C31_LongMovesAvoidNeutral ==
    Moved =>
        LET from == game.lastMove.from
            to == game.lastMove.to
        IN  /\ MovedDistance >= 1
            /\ MovedDistance >= 2 =>
                  \A k \in 0 .. MovedDistance : Along(from, to, k) \notin NEUTRAL_POSITIONS
            /\ (<<from.row, from.col>> \in NEUTRAL_POSITIONS \cup Zone(Other(Mover)))
                  => MovedDistance = 1
            /\ <<to.row, to.col>> \in NEUTRAL_POSITIONS => MovedDistance = 1
            /\ Mover = "black" => MovedDistance <= 2
            /\ Mover = "white" => MovedDistance <= 3

\* white has slid over three cells after black's piece left a neutral cell
C31_Witness ==
    /\ Moved
    /\ Mover = "white"
    /\ MovedDistance = 3
    /\ last.before.lastMove.type = "move"
    /\ <<last.before.lastMove.from.row, last.before.lastMove.from.col>> \in NEUTRAL_POSITIONS

(***************************************************************************)
(* C32  The flips of one move do not cascade and do not depend on the      *)
(* order of the 8 directions: whichever directions have been processed,    *)
(* the next one flips what it would flip on the board as it was right      *)
(* after the piece was relocated, so every order gives the board that      *)
(* flipSandwiched gives, and a flipped piece flips nothing further.        *)
(***************************************************************************)
\* the k-th cell from a destination in a direction holds a piece of the color
HoldsAt(board, color, to, d, k) ==
    /\ OnBoard(to.row + k * d[1], to.col + k * d[2])
    /\ board[to.row + k * d[1]][to.col + k * d[2]] = color

\* the cells sandwiched from a destination in one direction: the run of the
\* opponent's pieces next to the destination, if a piece of the mover
\* follows it
SandwichedAlong(board, color, to, d) ==
    LET n == CHOOSE m \in 0 .. BOARD_SIZE :
                 /\ \A k \in 1 .. m : HoldsAt(board, Other(color), to, d, k)
                 /\ ~HoldsAt(board, Other(color), to, d, m + 1)
    IN  IF n > 0 /\ HoldsAt(board, color, to, d, n + 1)
        THEN {<<to.row + k * d[1], to.col + k * d[2]>> : k \in 1 .. n}
        ELSE {}

\* the board with the flips of the directions of S, each decided on the board
FlippedIn(board, color, to, S) ==
    LET flips == UNION {SandwichedAlong(board, color, to, directions8[k]) : k \in S}
    IN  [row \in Rows |-> [col \in Cols |->
            IF <<row, col>> \in flips THEN color ELSE board[row][col]]]

\* the directions that flip something
Active(board, color, to) ==
    {k \in DOMAIN directions8 : SandwichedAlong(board, color, to, directions8[k]) # {}}

\* the directions processed in another order
RECURSIVE flipInOrder(_, _, _, _)
flipInOrder(acc, color, origin, order) ==
    IF order = << >> THEN acc
    ELSE flipInOrder(flipDirection(acc, color, origin, directions8[order[1]][1],
                                   directions8[order[1]][2]),
                     color, origin, Tail(order))

\* the source's order begun at any direction, forwards and backwards
Orders ==
    {[i \in DOMAIN directions8 |-> ((i + s) % 8) + 1] : s \in 0 .. 7}
    \cup {[i \in DOMAIN directions8 |-> 8 - ((i + s) % 8)] : s \in 0 .. 7}

C32_FlipsIndependentOfOrder ==
    Moved =>
        LET to == game.lastMove.to
            start == [board |-> Relocated, flipped |-> << >>]
        IN  /\ game.board = FlippedIn(Relocated, Mover, to, DOMAIN directions8)
            /\ \A order \in Orders :
                  flipInOrder(start, Mover, to, order).board = game.board
            \* the directions without flips leave every FlippedIn as it is, so
            \* the sets of active directions stand for all sets of directions
            /\ \A S \in SUBSET Active(Relocated, Mover, to), k \in DOMAIN directions8 :
                  flipDirection([board |-> FlippedIn(Relocated, Mover, to, S),
                                 flipped |-> << >>],
                                Mover, to, directions8[k][1], directions8[k][2]).board
                     = FlippedIn(Relocated, Mover, to, S \cup {k})

\* a move has flipped in two directions, and one of the flipped pieces
\* closes in a piece of the opponent that stays as it is
C32_Witness ==
    /\ Moved
    /\ Cardinality(Active(Relocated, Mover, game.lastMove.to)) >= 2
    /\ \E c \in Range(game.lastMove.flipped) :
          Sandwiched(game.board, Mover, [row |-> c[1], col |-> c[2]]) # {}

(***************************************************************************)
(* C33  normalizeState is the identity on every state that                 *)
(* createWaitingState, createNewGameState or an accepted applyAction       *)
(* produces (same board, placed, turn, status, ready, winner, result,      *)
(* lastMove), and is idempotent on every input:                            *)
(* normalizeState(normalizeState(x)) = normalizeState(x).  A game that is  *)
(* stored and read back through normalizeState is the game that was        *)
(* stored.                                                                 *)
(***************************************************************************)
\* the last call was applyAction and was accepted
AcceptedCall == IF "call" \in DOMAIN last THEN FALSE ELSE last.ok

C33_NormalizeStateIdentity ==
    /\ normalizeState(createWaitingState) = createWaitingState
    /\ normalizeState(createNewGameState) = createNewGameState
    /\ AcceptedCall => normalizeState(game) = game
    /\ normalizeState(normalizeState(game)) = normalizeState(game)

\* an action has been accepted on a stored state that normalizeState repairs
C33_Witness ==
    /\ AcceptedCall
    /\ game.lastMove # NullRef
    /\ normalizeState(last.before) # last.before

(***************************************************************************)
(* C34  The client's move hints agree with the server's rules: for every   *)
(* board, color and own piece at from, the cells that                      *)
(* getValidMoves(board, color, from) returns are the destinations to for   *)
(* which applyAction accepts the move from from to to on a playing state   *)
(* with that board and that color to move.                                 *)
(***************************************************************************)
\* the destinations on the board of the accepted moves of a color from a
\* cell, on the game with that color to move
acceptedFrom(color, from) ==
    LET results == applyEach([game EXCEPT !.turn = color],
                             [t \in DOMAIN cellList |->
                                 [type |-> "move", color |-> color,
                                  from |-> from, to |-> cellList[t]]])
    IN  {<<cellList[t].row, cellList[t].col>> : t \in
            {t \in DOMAIN cellList : results[t].ok}}

C34_HintsAreAcceptedMoves ==
    game.status = "playing" =>
        \A color \in Colors, from \in Cells :
            game.board[from[1]][from[2]] = color
                => getValidMoves(game.board, color, [row |-> from[1], col |-> from[2]])
                      = acceptedFrom(color, [row |-> from[1], col |-> from[2]])

\* a piece has hints one step away and at the end of a slide, and a piece
\* of the other color stands in the way of another of its slides
C34_Witness ==
    /\ game.status = "playing"
    /\ \E from \in Cells :
          LET here == [row |-> from[1], col |-> from[2]]
              hints == getValidMoves(game.board, game.turn, here)
          IN  /\ game.board[from[1]][from[2]] = game.turn
              /\ \E to \in hints : Distance(here, [row |-> to[1], col |-> to[2]]) = 1
              /\ \E to \in hints : Distance(here, [row |-> to[1], col |-> to[2]]) >= 2
              /\ \E d \in DOMAIN DIAG_DIRECTIONS :
                    LET row == from[1] + DIAG_DIRECTIONS[d][1]
                        col == from[2] + DIAG_DIRECTIONS[d][2]
                    IN  /\ OnBoard(row, col)
                        /\ game.board[row][col] = Other(game.turn)
                        /\ OnBoard(row + DIAG_DIRECTIONS[d][1], col + DIAG_DIRECTIONS[d][2])
                        /\ game.board[row + DIAG_DIRECTIONS[d][1]][col + DIAG_DIRECTIONS[d][2]]
                              = Null

(***************************************************************************)
(* The room                                                                *)
(***************************************************************************)
\* the stored game of the room is one in play
Playing == IF game = NullRef THEN FALSE ELSE game.status = "playing"

BothSeated == server.seats.black # Null /\ server.seats.white # Null

\* C35: the stored game of the room is Playing only while both seats of the
\* room are occupied, so a seated player who leaves a game in play leaves
\* it finished, by forfeit
C35_PlayingOnlyWhileSeated == Playing => BothSeated

\* the computer player sits on the seat of the color, as configured
CpuSeated(color) ==
    /\ server.seats[color] = cpuUserId
    /\ IF server.cpuRooms = NullRef THEN FALSE
       ELSE server.cpuRooms.enabled /\ server.cpuRooms.color = color

\* the seat is occupied, and its ready flag was set for the one who sits
\* there: by the user's own game:ready since sitting down, or by the
\* configuration of the computer player
ReadyInPerson(color) ==
    /\ server.seats[color] # Null
    /\ last.by[color] = server.seats[color] \/ CpuSeated(color)

\* C36: a step takes the room's game from Waiting or Finished to Playing
\* only by storing a new game, with both seats occupied and both ready flags
\* set for their present occupants
C36_StartNeedsBothReady ==
    [][(~Playing /\ Playing')
          => (/\ last'.started
              /\ game'.board = createEmptyBoard /\ game'.turn = "black"
              /\ ReadyInPerson("black")' /\ ReadyInPerson("white")')]_vars

\* two users have started a game, after another game of the room has ended
C36_Witness ==
    /\ last.started
    /\ Playing
    /\ server.seats.black \in Users /\ server.seats.white \in Users
    /\ scenario = 7

\* C37: at most one CPU turn of the room is pending at any time, and
\* cpuThinking holds the room exactly while one is: a timer is set only
\* when the flag is clear, and the callback of a timer clears it on every
\* path, or sets the next timer
C37_OneCpuTurnPending ==
    /\ Len(server.timers) <= 1
    /\ server.cpuThinking <=> Len(server.timers) = 1

\* a timer has fired on a game that has changed and has applied no action:
\* none is pending and the flag is clear
C37_Witness ==
    /\ last.event = "timer"
    /\ ~last.applied
    /\ server.timers = << >>
    /\ ~server.cpuThinking

\* C38: a CPU timer applies an action to the room's game only if, when it
\* fires, the room has CPU play enabled with the computer seated at the
\* color the timer was set for (the callback changes neither the seats nor
\* the configuration, so they are as they were when it fired)
C38_TimerActsForSeatedCpu ==
    (last.event = "timer" /\ last.applied) => CpuSeated(last.color)

\* CPU play is enabled, the game is in play and it is the computer's turn
CpuToMove ==
    /\ Playing
    /\ IF server.cpuRooms = NullRef THEN FALSE
       ELSE server.cpuRooms.enabled /\ game.turn = server.cpuRooms.color

\* C39: in a room with the computer enabled, both seats occupied and a game
\* in play at the computer's turn, a CPU timer is pending, so that the
\* computer, whose timers fire, comes to move: no order of events starts or
\* continues a game at the computer's turn with no timer pending
C39_CpuTurnHasTimer == (CpuToMove /\ BothSeated) => server.timers # << >>

\* the computer is to move and no timer is pending
Stalled == CpuToMove /\ server.timers = << >>

\* while the seats stay as they are no event ends a stall: no handler sets
\* a timer for a game in play for which none is pending
StallPersists ==
    [][(Stalled /\ BothSeated /\ server'.seats = server.seats) => Stalled']_vars

GameEvents == {"game:place", "game:move"}

\* the seat of a user, black first, or Null
SeatOf(userId) ==
    IF server.seats.black = userId THEN "black"
    ELSE IF server.seats.white = userId THEN "white"
    ELSE Null

\* a game event changes the game only by an accepted action of the color of
\* its sender's seat
OwnColorOnly ==
    game' # game =>
        /\ last'.applied
        /\ SeatOf(last'.user) # Null
        /\ game'.lastMove.color = SeatOf(last'.user)
        /\ server'.seats = server.seats

\* C40: a game:place or game:move event changes the game only by an action
\* of the color of the seat its sender occupies, so that no user has an
\* action of the opponent's color applied; a sender with no seat leaves the
\* game unchanged and is answered not_in_room if the socket is not in the
\* room and not_seated if it is
C40_ActsOnlyForOwnSeat ==
    [][last'.event \in GameEvents =>
          /\ OwnColorOnly
          /\ SeatOf(last'.user) = Null =>
                /\ game' = game
                /\ ~last'.ok
                /\ last'.error = IF server.sockets[last'.user] = 1 THEN "not_seated"
                                  ELSE "not_in_room"]_vars

\* an action of u2 on white is accepted with u1 seated on black
C40_Witness ==
    /\ last.event \in GameEvents
    /\ last.applied
    /\ server.seats[game.lastMove.color] = last.user
    /\ {server.seats.black, server.seats.white} = Users

\* a game action of a user with no seat has been refused
C40_RefusedWitness ==
    /\ last.event \in GameEvents
    /\ SeatOf(last.user) = Null
    /\ last.error = "not_seated"

\* C40 as stated: every sender with no seat is answered not_seated
C40_UnseatedGetNotSeated ==
    [][last'.event \in GameEvents =>
          /\ OwnColorOnly
          /\ SeatOf(last'.user) = Null =>
                /\ game' = game
                /\ ~last'.ok
                /\ last'.error = "not_seated"]_vars

====
